---- MODULE Spec2Model ----
(***************************************************************************)
(* A model of the MSD80/81 flashing client of src/tools/n54flash.py and    *)
(* its web wrapper src/tools/n54flash_enhanced.py:                         *)
(*                                                                         *)
(*   SpecKey    calc_key_msd80 applied to every 16-bit seed                *)
(*   SpecPatch  patch_vin / _fix_cal_checksum applied to flash images      *)
(*   SpecIsoTp  IsoTp._send of one endpoint feeding IsoTp._recv of another *)
(*   Spec       the flash workflow (main --flash, FlashController          *)
(*              .flash_image): main task, TesterPresentThread and ECU      *)
(*   SpecBackup     enter_session, security_unlock and backup              *)
(*   SpecRoundTrip  backup, flash of the backup, backup again              *)
(*   SpecValidate   FlashImage.validate in front of flash_image            *)
(*   SpecTransfer   transfer_data with more than 256 blocks                *)
(*   SpecInfo       read_ecu_id                                            *)
(*   SpecRequest    IsoTp.request of one endpoint against any peer         *)
(*   SpecCancel     the programming phase of flash, heartbeat scheduled    *)
(*                  fairly                                                 *)
(*   SpecUnlock     enter_session, security_unlock and the start of flash  *)
(*                  against an ECU that also truncates its responses       *)
(*   SpecDownload   request_download and transfer_data against an ECU that *)
(*                  answers every request positively                       *)
(*                                                                         *)
(* The flash layout is scaled down (BootSize, CalWords, CodeSize) and so   *)
(* are the block sizes; widths that matter (16-bit key and checksum, the   *)
(* 12-bit ISO-TP length, the 4-bit sequence number) are kept.              *)
(***************************************************************************)
EXTENDS Integers, Sequences, FiniteSets, TLC

VARIABLES
  \* SpecKey
  seed, key,
  \* SpecPatch
  pimage, pvin, pout, pagain,
  \* SpecIsoTp: endpoint A runs _send(tpPayload), endpoint B runs _recv()
  tpPayload, aPc, aLoc, aErr, aSent, chanAB, chanBA, bPc, bBuf, bTotal, bResult,
  tpTimedOut,
  \* SpecRequest: the _recv() that request() of endpoint A runs after _send
  rPc, rBuf, rTotal, rResult,
  \* Spec: the flash workflow
  flashImage, chunkArg, pc, phase, loc, exc, mainLog, lastResp, flashRet, tester, hbPc,
  hbBeats, ecuIn, rxq, ecu,
  \* SpecBackup, SpecRoundTrip, SpecInfo: backup's buffer and which backup of
  \* the run it is; read_ecu_id's loop index and result
  bkBuf, bkRound, idIdx, idResult

keyVars   == <<seed, key>>
patchVars == <<pimage, pvin, pout, pagain>>
rVars     == <<rPc, rBuf, rTotal, rResult>>
tpVars    == <<tpPayload, aPc, aLoc, aErr, aSent, chanAB, chanBA, bPc, bBuf, bTotal,
               bResult, tpTimedOut, rPc, rBuf, rTotal, rResult>>
wfVars    == <<flashImage, chunkArg, pc, phase, loc, exc, mainLog, lastResp, flashRet, tester,
               hbPc, hbBeats, ecuIn, rxq, ecu>>
opVars    == <<bkBuf, bkRound, idIdx, idResult>>
vars      == <<seed, key, pimage, pvin, pout, pagain,
               tpPayload, aPc, aLoc, aErr, aSent, chanAB, chanBA, bPc, bBuf, bTotal,
               bResult, tpTimedOut, rPc, rBuf, rTotal, rResult,
               flashImage, chunkArg, pc, phase, loc, exc, mainLog, lastResp, flashRet, tester,
               hbPc, hbBeats, ecuIn, rxq, ecu,
               bkBuf, bkRound, idIdx, idResult>>

----------------------------------------------------------------------------
(* Python helpers                                                          *)

Min(a, b) == IF a <= b THEN a ELSE b
Max(a, b) == IF a >= b THEN a ELSE b

\* s[a:b] of a bytes object, 0-based and half-open, both ends clamped to the
\* length as Python does (a, b >= 0 here).
Slice(s, a, b) ==
  LET lo == Min(a, Len(s))
      hi == Min(b, Len(s))
  IN  IF hi <= lo THEN << >> ELSE SubSeq(s, lo + 1, hi)

\* b"\x00" * n  (empty for n <= 0)
Zeros(n) == [i \in 1..n |-> 0]

\* a ^ b on non-negative ints
RECURSIVE BitXor(_, _)
BitXor(a, b) ==
  IF a = 0 /\ b = 0 THEN 0
  ELSE (((a % 2) + (b % 2)) % 2) + 2 * BitXor(a \div 2, b \div 2)

\* a & b on non-negative ints
RECURSIVE BitAnd(_, _)
BitAnd(a, b) ==
  IF a = 0 \/ b = 0 THEN 0
  ELSE ((a % 2) * (b % 2)) + 2 * BitAnd(a \div 2, b \div 2)

\* a | b on non-negative ints
RECURSIVE BitOr(_, _)
BitOr(a, b) ==
  IF a = 0 /\ b = 0 THEN 0
  ELSE (IF (a % 2) + (b % 2) > 0 THEN 1 ELSE 0) + 2 * BitOr(a \div 2, b \div 2)

\* a >> n and a << n
ShiftR(a, n) == a \div (2 ^ n)
ShiftL(a, n) == a * (2 ^ n)

----------------------------------------------------------------------------
(* Seed -> key                                                             *)

KEY_XOR  == 23100      \* 0x5A3C
KEY_ADD  == 32539      \* 0x7F1B
MASK16   == 65535      \* 0xFFFF

\* A mask that is one bit short of 16 bits.
calc_key_msd80_Mask15(s) == BitAnd(BitXor(s, KEY_XOR) + KEY_ADD, 32767)

calc_key_msd80(s) == BitAnd(BitXor(s, KEY_XOR) + KEY_ADD, MASK16)

----------------------------------------------------------------------------
(* Flash layout, scaled: BOOT | CAL | CODE                                 *)

BootSize == 18
CalWords == 10
CodeSize == 18

SECTOR_MAP ==
  << [name |-> "BOOT", addr |-> 0,                       size |-> BootSize,     protected |-> TRUE],
     [name |-> "CAL",  addr |-> BootSize,                size |-> 2 * CalWords, protected |-> FALSE],
     [name |-> "CODE", addr |-> BootSize + 2 * CalWords, size |-> CodeSize,     protected |-> TRUE] >>

FLASH_SIZE == BootSize + (2 * CalWords) + CodeSize

CAL_START == SECTOR_MAP[2].addr
CAL_SIZE  == SECTOR_MAP[2].size
CAL_END   == CAL_START + CAL_SIZE

----------------------------------------------------------------------------
(* VIN patch helpers                                                       *)

VIN_LEN == 17

\* bytes.find(sub): the lowest 0-based index where sub occurs, or -1.
Find(s, sub) ==
  LET hits == { i \in 0..(Len(s) - Len(sub)) : Slice(s, i, i + Len(sub)) = sub }
  IN  IF hits = {} THEN -1 ELSE CHOOSE i \in hits : \A j \in hits : i <= j

\* buf[a:b] = val on a bytearray (0 <= a <= b).
SetSlice(buf, a, b, val) ==
  Slice(buf, 0, a) \o val \o Slice(buf, Max(Min(b, Len(buf)), Min(a, Len(buf))), Len(buf))

\* struct.iter_unpack(">H", b): the 16-bit big-endian words of b (Len(b) even).
WordsBE(b) == [k \in 1..(Len(b) \div 2) |-> (256 * b[(2 * k) - 1]) + b[2 * k]]

\* sum(...) of a sequence of ints
RECURSIVE SumSeq(_)
SumSeq(w) == IF w = << >> THEN 0 ELSE Head(w) + SumSeq(Tail(w))

\* n.to_bytes(2, "big")
ToBytes2BE(n) == << n \div 256, n % 256 >>

\* The checksum is summed over the whole CAL region, old checksum word included.
_fix_cal_checksum_SumAll(buf) ==
  LET cal       == Slice(buf, CAL_START, CAL_END)
      checksum  == BitAnd(SumSeq(WordsBE(cal)), MASK16)
      corrected == (0 - checksum) % (MASK16 + 1)
  IN  [status |-> "ok", buf |-> SetSlice(buf, CAL_END - 2, CAL_END, ToBytes2BE(corrected))]

\* _fix_cal_checksum: the final word of CAL becomes minus the sum of the others.
\* cal[:-2] of odd length makes iter_unpack raise struct.error.
_fix_cal_checksum(buf) ==
  LET cal       == Slice(buf, CAL_START, CAL_END)
      body      == Slice(cal, 0, Len(cal) - 2)
      checksum  == BitAnd(SumSeq(WordsBE(body)), MASK16)
      corrected == (0 - checksum) % (MASK16 + 1)
  IN  IF Len(body) % 2 # 0
        THEN [status |-> "struct.error", buf |-> buf]
        ELSE [status |-> "ok",
              buf |-> SetSlice(buf, CAL_END - 2, CAL_END, ToBytes2BE(corrected))]

\* The length of new_vin is not checked.
patch_vin_NoLengthCheck(image, new_vin) ==
  IF \E i \in 1..Len(new_vin) : new_vin[i] > 127
    THEN [status |-> "UnicodeEncodeError", image |-> << >>]
  ELSE
    LET vin_bytes  == new_vin
        cal_region == Slice(image, CAL_START, CAL_END)
        idx        == Find(cal_region, vin_bytes)
        abs_idx    == CAL_START + idx
        patched    == SetSlice(image, abs_idx, abs_idx + VIN_LEN, vin_bytes)
        fixed      == _fix_cal_checksum(patched)
    IN  IF idx = -1
          THEN [status |-> "RuntimeError", image |-> << >>]
        ELSE IF fixed.status # "ok"
          THEN [status |-> fixed.status, image |-> << >>]
        ELSE [status |-> "ok", image |-> fixed.buf]

\* The VIN is searched for in the whole image.
patch_vin_SearchImage(image, new_vin) ==
  IF Len(new_vin) # VIN_LEN
    THEN [status |-> "ValueError", image |-> << >>]
  ELSE IF \E i \in 1..Len(new_vin) : new_vin[i] > 127
    THEN [status |-> "UnicodeEncodeError", image |-> << >>]
  ELSE
    LET vin_bytes  == new_vin
        abs_idx    == Find(image, vin_bytes)
        patched    == SetSlice(image, abs_idx, abs_idx + VIN_LEN, vin_bytes)
        fixed      == _fix_cal_checksum(patched)
    IN  IF abs_idx = -1
          THEN [status |-> "RuntimeError", image |-> << >>]
        ELSE IF fixed.status # "ok"
          THEN [status |-> fixed.status, image |-> << >>]
        ELSE [status |-> "ok", image |-> fixed.buf]

\* patch_vin(image, new_vin): new_vin is a str, given by its code points.
patch_vin(image, new_vin) ==
  IF Len(new_vin) # VIN_LEN
    THEN [status |-> "ValueError", image |-> << >>]
  ELSE IF \E i \in 1..Len(new_vin) : new_vin[i] > 127
    THEN [status |-> "UnicodeEncodeError", image |-> << >>]
  ELSE
    LET vin_bytes  == new_vin
        cal_region == Slice(image, CAL_START, CAL_END)
        idx        == Find(cal_region, vin_bytes)
        abs_idx    == CAL_START + idx
        patched    == SetSlice(image, abs_idx, abs_idx + VIN_LEN, vin_bytes)
        fixed      == _fix_cal_checksum(patched)
    IN  IF idx = -1
          THEN [status |-> "RuntimeError", image |-> << >>]
        ELSE IF fixed.status # "ok"
          THEN [status |-> fixed.status, image |-> << >>]
        ELSE [status |-> "ok", image |-> fixed.buf]

----------------------------------------------------------------------------
(* Inputs of patch_vin                                                     *)

\* "ABCDEFGHIJKLMNOPQ" and "11111111111111111" as code points
VinRamp == [i \in 1..VIN_LEN |-> 64 + i]
VinOnes == [i \in 1..VIN_LEN |-> 49]

Vins ==
  { VinRamp, VinOnes,
    SubSeq(VinRamp, 1, VIN_LEN - 1),                          \* 16 characters
    VinRamp \o <<82>>,                                        \* 18 characters
    [VinRamp EXCEPT ![3] = 233] }                             \* 17 characters, one not ASCII

FillBytes == {0, 255, 49}

\* An image of FLASH_SIZE bytes of value f with v written at offsets p and q
\* (an offset of -1 writes nothing).
Embed(img, v, p) == IF p < 0 THEN img ELSE SetSlice(img, p, p + Len(v), v)

ImageOf(f, v, p, q) == Embed(Embed([i \in 1..FLASH_SIZE |-> f], v, q), v, p)

EmbedOffsets == {-1} \cup (0..(FLASH_SIZE - VIN_LEN))

----------------------------------------------------------------------------
(* ISO-TP frames                                                           *)

CAN_ID_REQ  == 1777    \* 0x6F1
CAN_ID_RESP == 1785    \* 0x6F9

Frame(arbitration_id, data) == [arbitration_id |-> arbitration_id, data |-> data]

\* bus.recv(timeout) returning nothing
NoFrame == [arbitration_id |-> -1, data |-> << >>]

\* _send, len(payload) <= 7: the Single frame
SingleFrame(payload) == <<Len(payload)>> \o payload \o Zeros(7 - Len(payload))

\* The First frame carries the low byte of the length only.
FirstFrame_LengthLowByte(payload) ==
  << 16, BitAnd(Len(payload), 255) >> \o Slice(payload, 0, 6)

\* _send, longer payload: the First frame
FirstFrame(payload) ==
  LET total == Len(payload)
  IN  << BitOr(16, BitAnd(ShiftR(total, 8), 15)), BitAnd(total, 255) >> \o Slice(payload, 0, 6)

\* The payload is cut into chunks of 6 bytes instead of 7.
CfChunk_Six(payload, ptr) == Slice(payload, ptr, ptr + 6)

\* _send: the chunk of one Consecutive frame
CfChunk(payload, ptr) == Slice(payload, ptr, ptr + 7)

\* A Consecutive frame ends with its last payload byte.
ConsecutiveFrame_NoPad(sn, chunk) == <<BitOr(32, BitAnd(sn, 15))>> \o chunk

\* _send: a Consecutive frame
ConsecutiveFrame(sn, chunk) == <<BitOr(32, BitAnd(sn, 15))>> \o chunk \o Zeros(7 - Len(chunk))

\* _recv: the FlowControl frame sent on a First frame
FlowControlFrame == <<48, 0, 0>> \o Zeros(5)

\* _recv(raw=True) on the frame msg that bus.recv returned: the data, or None
\* (given as << >>, which `not fc` treats alike).
RecvRaw(msg, rx_id) ==
  IF msg = NoFrame \/ msg.arbitration_id # rx_id THEN << >> ELSE msg.data

\* The reassembled payload is returned with the padding of its last frame.
RecvResult_Padded(buf, total) == buf

\* _recv: the reassembled payload
RecvResult(buf, total) == Slice(buf, 0, total)

\* _recv: the data of a Single frame
SingleData(data) == Slice(data, 1, 1 + BitAnd(data[1], 15))

\* _recv: the 12-bit length of a First frame
FirstTotal(data) == BitOr(ShiftL(BitAnd(data[1], 15), 8), data[2])

----------------------------------------------------------------------------
(* Inputs of the ISO-TP exchange                                           *)

MaxLen   == 22
QueueCap == 2

\* Lengths past one byte of length, up to the 12-bit maximum.
LargeLens == {300, 4095}

PayloadOf(n, pat) ==
  [i \in 1..n |-> CASE pat = "ramp"  -> i % 256
                    [] pat = "zeros" -> 0
                    [] OTHER         -> 170]

Payloads ==
  { PayloadOf(n, pat) : n \in 1..MaxLen, pat \in {"ramp", "zeros", "aa"} }
    \cup { PayloadOf(n, "ramp") : n \in LargeLens }

----------------------------------------------------------------------------
(* KWP2000 requests and the ECU that answers them                          *)

POS_RESP                  == 64     \* 0x40
SID_START_SESSION         == 16     \* 0x10
SID_SECURITY_ACCESS       == 39     \* 0x27
SID_TESTER_PRESENT        == 62     \* 0x3E
SID_READ_MEMORY_BY_ADDR   == 35     \* 0x23
SID_REQUEST_DOWNLOAD      == 52     \* 0x34
SID_TRANSFER_DATA         == 54     \* 0x36
SID_REQUEST_TRANSFER_EXIT == 55     \* 0x37
SID_ROUTINE_CONTROL       == 49     \* 0x31
SID_READ_ECU_ID           == 26     \* 0x1A
ROUTINE_ERASE_ALL         == 65280  \* 0xFF00

\* Block sizes, scaled with the layout: the default TransferData block
\* (0x0800 in the source) and the stride of verify (0x0400).
TRANSFER_SIZE_DEFAULT == 8
VERIFY_CHUNK          == 4

\* The most TesterPresent requests one heartbeat thread sends in a run.
MaxBeats == 2

\* The most TransferData requests of a run in which the block size is 0 and
\* the loop of transfer_data therefore never ends.
MaxBlocks == 24

pos(sid) == sid + POS_RESP

\* Any response at all counts as the positive one.
Positive_AnyResponse(resp, sid) == resp # << >>

\* Only an empty response or a negative one is turned down.
Positive_NotNegative(resp, sid) == resp # << >> /\ resp[1] # 127

\* The check every caller of _kwp makes: `resp and resp[0] == pos(sid)`
Positive(resp, sid) == resp # << >> /\ resp[1] = pos(sid)

\* n.to_bytes(4, "big")
ToBytes4BE(n) ==
  << (n \div 16777216) % 256, (n \div 65536) % 256, (n \div 256) % 256, n % 256 >>

\* int.from_bytes(b, "big")
RECURSIVE IntFromBytesBE(_)
IntFromBytesBE(b) ==
  IF b = << >> THEN 0 ELSE (256 * IntFromBytesBE(SubSeq(b, 1, Len(b) - 1))) + b[Len(b)]

\* The request payloads, bytes([sid]) + payload as _kwp builds them.
ReqEnterSession == <<SID_START_SESSION, 133>>
ReqSeed         == <<SID_SECURITY_ACCESS, 1>>
ReqKey_LowHigh(k) == <<SID_SECURITY_ACCESS, 2, BitAnd(k, 255), ShiftR(k, 8)>>
ReqKey(k)       == <<SID_SECURITY_ACCESS, 2, ShiftR(k, 8), BitAnd(k, 255)>>
ReqTesterPresent == <<SID_TESTER_PRESENT, 0>>
ReqErase        ==
  <<SID_ROUTINE_CONTROL, 1, ShiftR(ROUTINE_ERASE_ALL, 8), BitAnd(ROUTINE_ERASE_ALL, 255)>>
ReqDownload(addr, length) ==
  <<SID_REQUEST_DOWNLOAD, 0, 68>> \o ToBytes4BE(addr) \o ToBytes4BE(length)
ReqTransfer(counter, chunk) == <<SID_TRANSFER_DATA, BitAnd(counter, 255)>> \o chunk
ReqTransferExit == <<SID_REQUEST_TRANSFER_EXIT>>
ReqReadBlock(addr, length) ==
  <<SID_READ_MEMORY_BY_ADDR, 36>> \o ToBytes4BE(addr) \o <<36>> \o ToBytes4BE(length)

\* The seed the ECU hands out.
EcuSeed == 4660    \* 0x1234

\* The ECU's negative response to a request.
Negative(req) == <<127, req[1], 34>>

\* data with the byte at 1-based index i changed.
Flip(data, i) == [data EXCEPT ![i] = (@ + 1) % 256]

\* The bytes the ECU holds at [addr, addr + length).
EcuRead(mem, addr, length) == Slice(mem, addr, addr + length)

\* The positive responses the ECU may give to req.  A read may come back
\* right, with one byte wrong, one byte short, without data, or one byte long;
\* RequestDownload may come without a block length, with one of 5, 200 or 0,
\* or without the byte that tells how long the block length is.
EcuPositive(req, e) ==
  LET sid == req[1]
  IN  CASE sid = SID_START_SESSION -> { <<pos(sid), req[2]>> }
        [] sid = SID_SECURITY_ACCESS /\ req[2] = 1 ->
             { <<pos(sid), 1, ShiftR(EcuSeed, 8), BitAnd(EcuSeed, 255)>> }
        [] sid = SID_SECURITY_ACCESS /\ req[2] # 1 ->
             IF IntFromBytesBE(Slice(req, 2, 4)) = calc_key_msd80(EcuSeed)
               THEN { <<pos(sid), 2>> } ELSE { }
        [] sid = SID_TESTER_PRESENT -> { <<pos(sid), 0>> }
        [] sid = SID_ROUTINE_CONTROL -> { <<pos(sid)>> \o Slice(req, 1, 4) }
        [] sid = SID_REQUEST_DOWNLOAD -> { <<pos(sid), 0>>, <<pos(sid), 1, 5>>, <<pos(sid), 2, 0, 200>>, <<pos(sid), 1, 0>>,
               <<pos(sid)>> }
        [] sid = SID_TRANSFER_DATA -> { <<pos(sid), req[2]>> }
        [] sid = SID_REQUEST_TRANSFER_EXIT -> { <<pos(sid)>> }
        [] sid = SID_READ_MEMORY_BY_ADDR ->
             LET addr == IntFromBytesBE(Slice(req, 2, 6))
                 n    == IntFromBytesBE(Slice(req, 7, 11))
                 data == EcuRead(e.mem, addr, n)
             IN  { <<pos(sid)>> \o data,
                   <<pos(sid)>> \o Slice(data, 0, Len(data) - 1),
                   <<pos(sid)>>,
                   <<pos(sid)>> \o data \o <<0>> }
                 \cup { <<pos(sid)>> \o Flip(data, i) : i \in 1..Len(data) }
        [] OTHER -> { }

\* A response that is neither negative nor the echo of the request's service.
WrongEcho(req) == <<pos(req[1]) + 1>>

\* Every answer the ECU may give: a positive one, a negative one, none
\* (<< >>: the tester's receive then times out) or, to a request of the main
\* task, one with another first byte.
EcuAnswers(req, e) ==
  EcuPositive(req, e) \cup { Negative(req), << >> }
    \cup (IF req[1] = SID_TESTER_PRESENT THEN { } ELSE { WrongEcho(req) })

\* The ECU's count of the requests other than TesterPresent it has handled,
\* and the number of the first of them it answered negatively or not at all
\* (0: none so far).
EcuSeen(req, ans, e) ==
  IF req[1] = SID_TESTER_PRESENT THEN e
  ELSE [e EXCEPT !.seen = e.seen + 1,
                 !.refusedAt = IF e.refusedAt = 0 /\ ~Positive(ans, req[1]) THEN e.seen + 1 ELSE @]

\* The ECU after it answered req with ans: erased, pointed at the download
\* address, or holding one more block.
EcuAfter(req, ans, e0) ==
  LET e == EcuSeen(req, ans, e0)
  IN  IF ~Positive(ans, req[1]) THEN e
      ELSE CASE req[1] = SID_ROUTINE_CONTROL -> [e EXCEPT !.mem = [i \in 1..Len(e.mem) |-> 255]]
             [] req[1] = SID_REQUEST_DOWNLOAD -> [e EXCEPT !.ptr = IntFromBytesBE(Slice(req, 3, 7))]
             [] req[1] = SID_TRANSFER_DATA ->
                  LET data == Slice(req, 2, Len(req))
                  IN  [e EXCEPT !.mem = Slice(SetSlice(e.mem, e.ptr, e.ptr + Len(data), data), 0, Len(e.mem)),
                                !.ptr = e.ptr + Len(data)]
             [] OTHER -> e

\* The images handed to flash: one of FLASH_SIZE bytes and one a byte short.
Images == { [i \in 1..FLASH_SIZE |-> i % 256], [i \in 1..(FLASH_SIZE - 1) |-> i % 256] }

\* The chunk_size argument: the default, or --chunk 3.
ChunkArgs == { TRANSFER_SIZE_DEFAULT, 3 }

----------------------------------------------------------------------------
(* State machines                                                          *)

KeyIdle == seed = 0 /\ key = -1

PatchIdle ==
  /\ pimage = << >> /\ pvin = << >>
  /\ pout = [status |-> "none"] /\ pagain = [status |-> "none"]

TpIdle ==
  /\ tpPayload = << >> /\ aPc = "idle" /\ aLoc = [ptr |-> 0, sn |-> 0, bs_cnt |-> 0, st_min |-> 0, bs |-> 0]
  /\ aErr = "" /\ aSent = << >> /\ chanAB = << >> /\ chanBA = << >>
  /\ bPc = "idle" /\ bBuf = << >> /\ bTotal = 0 /\ bResult = [kind |-> "none"]
  /\ tpTimedOut = FALSE
  /\ rPc = "idle" /\ rBuf = << >> /\ rTotal = 0 /\ rResult = [kind |-> "none"]

NoExc == [kind |-> "", msg |-> "", addr |-> -1]

OpIdle == bkBuf = << >> /\ bkRound = 0 /\ idIdx = 0 /\ idResult = << >>

WfIdle ==
  /\ flashImage = << >> /\ chunkArg = 0 /\ pc = "idle" /\ phase = "-"
  /\ loc = [seed |-> 0, block |-> 0, offset |-> 0, counter |-> 0, addr |-> 0]
  /\ exc = NoExc /\ mainLog = << >> /\ lastResp = << >> /\ flashRet = "none"
  /\ tester = [started |-> FALSE, stop |-> FALSE, joined |-> FALSE]
  /\ hbPc = "idle" /\ hbBeats = 0 /\ ecuIn = << >> /\ rxq = << >>
  /\ ecu = [mem |-> << >>, ptr |-> 0, seen |-> 0, refusedAt |-> 0]

InitKey ==
  /\ seed \in 0..MASK16
  /\ key = -1
  /\ PatchIdle
  /\ TpIdle
  /\ WfIdle
  /\ OpIdle

ComputeKey ==
  /\ key = -1
  /\ key' = calc_key_msd80(seed)
  /\ UNCHANGED seed
  /\ UNCHANGED <<patchVars, tpVars, wfVars, opVars>>

NextKey == ComputeKey

InitPatch ==
  /\ pvin \in Vins
  /\ \E f \in FillBytes, v \in {VinRamp, VinOnes}, p \in EmbedOffsets, q \in EmbedOffsets :
        /\ (q # -1 => p # -1 /\ p < q)
        /\ pimage = ImageOf(f, v, p, q)
  /\ pout = [status |-> "none"]
  /\ pagain = [status |-> "none"]
  /\ KeyIdle
  /\ TpIdle
  /\ WfIdle
  /\ OpIdle

PatchVin ==
  /\ pout.status = "none"
  /\ pout' = patch_vin(pimage, pvin)
  /\ UNCHANGED <<pimage, pvin, pagain>>
  /\ UNCHANGED <<keyVars, tpVars, wfVars, opVars>>

\* patch_vin called once more, on the image it returned and with the same VIN
PatchVinAgain ==
  /\ pout.status = "ok"
  /\ pagain.status = "none"
  /\ pagain' = patch_vin(pout.image, pvin)
  /\ UNCHANGED <<pimage, pvin, pout>>
  /\ UNCHANGED <<keyVars, tpVars, wfVars, opVars>>

NextPatch == PatchVin \/ PatchVinAgain

SpecPatch == InitPatch /\ [][NextPatch]_vars

SpecKey == InitKey /\ [][NextKey]_vars

(* ---- ISO-TP: A = IsoTp(bus, CAN_ID_REQ, CAN_ID_RESP)._send(tpPayload),     *)
(*              B = IsoTp(bus, CAN_ID_RESP, CAN_ID_REQ)._recv()               *)

InitIsoTp ==
  /\ tpPayload \in Payloads
  /\ aPc = "start"
  /\ aLoc = [ptr |-> 0, sn |-> 0, bs_cnt |-> 0, st_min |-> 0, bs |-> 0]
  /\ aErr = "" /\ aSent = << >> /\ chanAB = << >> /\ chanBA = << >>
  /\ bPc = "recv" /\ bBuf = << >> /\ bTotal = 0 /\ bResult = [kind |-> "none"]
  /\ tpTimedOut = FALSE
  /\ rPc = "idle" /\ rBuf = << >> /\ rTotal = 0 /\ rResult = [kind |-> "none"]
  /\ KeyIdle
  /\ PatchIdle
  /\ WfIdle
  /\ OpIdle

\* A: self.bus.send(Frame(self.tx_id, data))
ASendFrame(data) ==
  /\ Len(chanAB) < QueueCap
  /\ aSent' = Append(aSent, Frame(CAN_ID_REQ, data))
  /\ chanAB' = Append(chanAB, Frame(CAN_ID_REQ, data))

\* The block size and STmin of the first FlowControl are kept for the whole
\* send.
AOnFlowControl_KeepFirst(fc, first) ==
  IF fc = << >> \/ ShiftR(fc[1], 4) # 3
    THEN /\ aPc' = "error"
         /\ aErr' = IF first THEN "No FlowControl" ELSE "Missing FC mid-transfer"
         /\ UNCHANGED aLoc
  ELSE /\ aLoc' = IF first
                    THEN [ptr |-> 6, sn |-> 1, bs_cnt |-> 0, st_min |-> fc[3], bs |-> fc[2]]
                    ELSE aLoc
       /\ aPc' = IF aLoc'.ptr < Len(tpPayload) THEN "cf_loop" ELSE "sent"
       /\ aErr' = aErr

\* A: after a FlowControl was awaited: fc is what _recv(raw=True) returned.
\* Goes on with the loop (at its test) or raises.
AOnFlowControl(fc, first) ==
  IF fc = << >> \/ ShiftR(fc[1], 4) # 3
    THEN /\ aPc' = "error"
         /\ aErr' = IF first THEN "No FlowControl" ELSE "Missing FC mid-transfer"
         /\ UNCHANGED aLoc
  ELSE IF Len(fc) < 3
    THEN /\ aPc' = "error"
         /\ aErr' = "IndexError"
         /\ UNCHANGED aLoc
  ELSE /\ aLoc' = IF first
                    THEN [ptr |-> 6, sn |-> 1, bs_cnt |-> 0, st_min |-> fc[3], bs |-> fc[2]]
                    ELSE [aLoc EXCEPT !.st_min = fc[3], !.bs = fc[2]]
       /\ aPc' = IF aLoc'.ptr < Len(tpPayload) THEN "cf_loop" ELSE "sent"
       /\ aErr' = aErr

\* _send, lines 371-378: the Single frame, or the First frame
SendStart ==
  /\ aPc = "start"
  /\ IF Len(tpPayload) <= 7
       THEN /\ ASendFrame(SingleFrame(tpPayload))
            /\ aPc' = "sent"
       ELSE /\ ASendFrame(FirstFrame(tpPayload))
            /\ aPc' = "await_fc"
  /\ UNCHANGED <<tpPayload, aLoc, aErr, chanBA, bPc, bBuf, bTotal, bResult, tpTimedOut>>
  /\ UNCHANGED rVars
  /\ UNCHANGED <<keyVars, patchVars, wfVars, opVars>>

\* _send, lines 379-383: the FlowControl after the First frame
SendAwaitFC ==
  /\ aPc = "await_fc"
  /\ \/ /\ chanBA # << >>
        /\ AOnFlowControl(RecvRaw(Head(chanBA), CAN_ID_RESP), TRUE)
        /\ chanBA' = Tail(chanBA)
        /\ UNCHANGED tpTimedOut
     \/ /\ chanBA = << >>
        /\ AOnFlowControl(RecvRaw(NoFrame, CAN_ID_RESP), TRUE)
        /\ tpTimedOut' = TRUE
        /\ UNCHANGED chanBA
  /\ UNCHANGED <<tpPayload, aSent, chanAB, bPc, bBuf, bTotal, bResult>>
  /\ UNCHANGED rVars
  /\ UNCHANGED <<keyVars, patchVars, wfVars, opVars>>

\* _send, lines 384-398: one turn of the loop, up to its wait for a FlowControl
SendCF ==
  /\ aPc = "cf_loop"
  /\ LET chunk  == CfChunk(tpPayload, aLoc.ptr)
         ptr    == aLoc.ptr + Len(chunk)
         sn     == BitAnd(aLoc.sn + 1, 15)
         bs_cnt == aLoc.bs_cnt + 1
     IN  /\ ASendFrame(ConsecutiveFrame(aLoc.sn, chunk))
         /\ IF aLoc.bs # 0 /\ bs_cnt >= aLoc.bs
              THEN /\ aLoc' = [aLoc EXCEPT !.ptr = ptr, !.sn = sn, !.bs_cnt = 0]
                   /\ aPc' = "await_fc_mid"
              ELSE /\ aLoc' = [aLoc EXCEPT !.ptr = ptr, !.sn = sn, !.bs_cnt = bs_cnt]
                   /\ aPc' = IF ptr < Len(tpPayload) THEN "cf_loop" ELSE "sent"
  /\ UNCHANGED <<tpPayload, aErr, chanBA, bPc, bBuf, bTotal, bResult, tpTimedOut>>
  /\ UNCHANGED rVars
  /\ UNCHANGED <<keyVars, patchVars, wfVars, opVars>>

\* _send, lines 393-396: the FlowControl awaited after a block
SendAwaitFCMid ==
  /\ aPc = "await_fc_mid"
  /\ \/ /\ chanBA # << >>
        /\ AOnFlowControl(RecvRaw(Head(chanBA), CAN_ID_RESP), FALSE)
        /\ chanBA' = Tail(chanBA)
        /\ UNCHANGED tpTimedOut
     \/ /\ chanBA = << >>
        /\ AOnFlowControl(RecvRaw(NoFrame, CAN_ID_RESP), FALSE)
        /\ tpTimedOut' = TRUE
        /\ UNCHANGED chanBA
  /\ UNCHANGED <<tpPayload, aSent, chanAB, bPc, bBuf, bTotal, bResult>>
  /\ UNCHANGED rVars
  /\ UNCHANGED <<keyVars, patchVars, wfVars, opVars>>

\* B: _recv on the frame msg that bus.recv returned, lines 402-420
BOnFirstFrame(msg) ==
  IF msg = NoFrame \/ msg.arbitration_id # CAN_ID_REQ
    THEN /\ bResult' = [kind |-> "None"]
         /\ bPc' = "returned"
         /\ UNCHANGED <<bBuf, bTotal, chanBA>>
  ELSE
    LET data  == msg.data
        ptype == BitAnd(data[1], 240)
    IN  IF ptype = 0
          THEN /\ bResult' = [kind |-> "bytes", data |-> SingleData(data)]
               /\ bPc' = "returned"
               /\ UNCHANGED <<bBuf, bTotal, chanBA>>
        ELSE IF ptype = 16
          THEN /\ bTotal' = FirstTotal(data)
               /\ bBuf' = Slice(data, 2, 8)
               /\ chanBA' = Append(chanBA, Frame(CAN_ID_RESP, FlowControlFrame))
               /\ IF Len(bBuf') < bTotal'
                    THEN bPc' = "cf_loop" /\ UNCHANGED bResult
                    ELSE /\ bPc' = "returned"
                         /\ bResult' = [kind |-> "bytes", data |-> RecvResult(bBuf', bTotal')]
        ELSE /\ bResult' = [kind |-> "None"]
             /\ bPc' = "returned"
             /\ UNCHANGED <<bBuf, bTotal, chanBA>>

\* _recv, lines 401-413 and 420: the first frame
RecvFirst ==
  /\ bPc = "recv"
  /\ \/ /\ chanAB # << >>
        /\ BOnFirstFrame(Head(chanAB))
        /\ chanAB' = Tail(chanAB)
        /\ UNCHANGED tpTimedOut
     \/ /\ chanAB = << >>
        /\ BOnFirstFrame(NoFrame)
        /\ tpTimedOut' = TRUE
        /\ UNCHANGED chanAB
  /\ UNCHANGED <<tpPayload, aPc, aLoc, aErr, aSent>>
  /\ UNCHANGED rVars
  /\ UNCHANGED <<keyVars, patchVars, wfVars, opVars>>

\* A missing Consecutive frame ends the loop and what has been reassembled so
\* far is returned.
BOnConsecutive_ReturnPartial(cf) ==
  IF cf = NoFrame \/ cf.arbitration_id # CAN_ID_REQ
    THEN /\ bPc' = "returned"
         /\ bResult' = [kind |-> "bytes", data |-> RecvResult(bBuf, bTotal)]
         /\ UNCHANGED bBuf
    ELSE /\ bBuf' = bBuf \o Slice(cf.data, 1, Len(cf.data))
         /\ IF Len(bBuf') < bTotal
              THEN bPc' = "cf_loop" /\ UNCHANGED bResult
              ELSE /\ bPc' = "returned"
                   /\ bResult' = [kind |-> "bytes", data |-> RecvResult(bBuf', bTotal)]

\* B: one turn of the loop of lines 414-419 on the frame cf
BOnConsecutive(cf) ==
  IF cf = NoFrame \/ cf.arbitration_id # CAN_ID_REQ
    THEN /\ bPc' = "error"
         /\ bResult' = [kind |-> "error", what |-> "Consecutive frame timeout"]
         /\ UNCHANGED bBuf
    ELSE /\ bBuf' = bBuf \o Slice(cf.data, 1, Len(cf.data))
         /\ IF Len(bBuf') < bTotal
              THEN bPc' = "cf_loop" /\ UNCHANGED bResult
              ELSE /\ bPc' = "returned"
                   /\ bResult' = [kind |-> "bytes", data |-> RecvResult(bBuf', bTotal)]

\* _recv, lines 414-419: a Consecutive frame
RecvCF ==
  /\ bPc = "cf_loop"
  /\ \/ /\ chanAB # << >>
        /\ BOnConsecutive(Head(chanAB))
        /\ chanAB' = Tail(chanAB)
        /\ UNCHANGED tpTimedOut
     \/ /\ chanAB = << >>
        /\ BOnConsecutive(NoFrame)
        /\ tpTimedOut' = TRUE
        /\ UNCHANGED chanAB
  /\ UNCHANGED <<tpPayload, aPc, aLoc, aErr, aSent, chanBA, bTotal>>
  /\ UNCHANGED rVars
  /\ UNCHANGED <<keyVars, patchVars, wfVars, opVars>>

\* B answers a First frame with BS = 0 and sends no further FlowControl, so A
\* never waits for one after a block here.
NextIsoTp == SendStart \/ SendAwaitFC \/ SendCF \/ RecvFirst \/ RecvCF

SpecIsoTp == InitIsoTp /\ [][NextIsoTp]_vars

(* ---- ISO-TP: A = IsoTp(bus, CAN_ID_REQ, CAN_ID_RESP).request(tpPayload);   *)
(*              the peer is whatever puts frames on the bus                   *)

\* The frames that may arrive while A runs request(): FlowControl frames with
\* a block size of 0, 1 or 2 and an STmin of 0 or 5, a Single frame, a First
\* frame of 9 bytes, a Consecutive frame, all from the ECU, and a Single frame
\* and a FlowControl from another node (identifier 0x100).
PeerFrames ==
  { Frame(CAN_ID_RESP, <<48, fc[1], fc[2]>> \o Zeros(5)) : fc \in {<<0, 0>>, <<1, 0>>, <<1, 5>>, <<2, 5>>} }
    \cup { Frame(CAN_ID_RESP, SingleFrame(<<80, 133>>)),
           Frame(CAN_ID_RESP, FirstFrame(<<99, 1, 2, 3, 4, 5, 6, 7, 8>>)),
           Frame(CAN_ID_RESP, ConsecutiveFrame(1, <<6, 7, 8>>)),
           Frame(256, SingleFrame(<<80, 133>>)),
           Frame(256, FlowControlFrame) }

InitRequest ==
  /\ tpPayload \in { PayloadOf(n, "ramp") : n \in {1, 8, 13, 20, MaxLen, 300} }
  /\ aPc = "start"
  /\ aLoc = [ptr |-> 0, sn |-> 0, bs_cnt |-> 0, st_min |-> 0, bs |-> 0]
  /\ aErr = "" /\ aSent = << >> /\ chanAB = << >> /\ chanBA = << >>
  /\ bPc = "idle" /\ bBuf = << >> /\ bTotal = 0 /\ bResult = [kind |-> "none"]
  /\ tpTimedOut = FALSE
  /\ rPc = "idle" /\ rBuf = << >> /\ rTotal = 0 /\ rResult = [kind |-> "none"]
  /\ KeyIdle
  /\ PatchIdle
  /\ WfIdle
  /\ OpIdle

\* A: _recv on the frame msg that bus.recv returned, lines 401-413 and 420
RequestOnFirstFrame(msg) ==
  IF msg = NoFrame \/ msg.arbitration_id # CAN_ID_RESP
    THEN /\ rResult' = [kind |-> "None"]
         /\ rPc' = "returned"
         /\ UNCHANGED <<rBuf, rTotal, chanAB, aSent>>
  ELSE
    LET data  == msg.data
        ptype == BitAnd(data[1], 240)
    IN  IF ptype = 0
          THEN /\ rResult' = [kind |-> "bytes", data |-> SingleData(data)]
               /\ rPc' = "returned"
               /\ UNCHANGED <<rBuf, rTotal, chanAB, aSent>>
        ELSE IF ptype = 16
          THEN /\ rTotal' = FirstTotal(data)
               /\ rBuf' = Slice(data, 2, 8)
               /\ ASendFrame(FlowControlFrame)
               /\ IF Len(rBuf') < rTotal'
                    THEN rPc' = "cf_loop" /\ UNCHANGED rResult
                    ELSE /\ rPc' = "returned"
                         /\ rResult' = [kind |-> "bytes", data |-> RecvResult(rBuf', rTotal')]
        ELSE /\ rResult' = [kind |-> "None"]
             /\ rPc' = "returned"
             /\ UNCHANGED <<rBuf, rTotal, chanAB, aSent>>

\* request, line 367, and _recv, lines 401-413: _send has returned and the
\* first frame of the response is awaited
RequestRecvFirst ==
  /\ aPc = "sent" /\ rPc = "idle"
  /\ \/ /\ chanBA # << >>
        /\ RequestOnFirstFrame(Head(chanBA))
        /\ chanBA' = Tail(chanBA)
        /\ UNCHANGED tpTimedOut
     \/ /\ chanBA = << >>
        /\ RequestOnFirstFrame(NoFrame)
        /\ tpTimedOut' = TRUE
        /\ UNCHANGED chanBA
  /\ UNCHANGED <<tpPayload, aPc, aLoc, aErr, bPc, bBuf, bTotal, bResult>>
  /\ UNCHANGED <<keyVars, patchVars, wfVars, opVars>>

\* A: one turn of the loop of lines 414-419 on the frame cf
RequestOnConsecutive(cf) ==
  IF cf = NoFrame \/ cf.arbitration_id # CAN_ID_RESP
    THEN /\ rPc' = "error"
         /\ rResult' = [kind |-> "error", what |-> "Consecutive frame timeout"]
         /\ UNCHANGED rBuf
    ELSE /\ rBuf' = rBuf \o Slice(cf.data, 1, Len(cf.data))
         /\ IF Len(rBuf') < rTotal
              THEN rPc' = "cf_loop" /\ UNCHANGED rResult
              ELSE /\ rPc' = "returned"
                   /\ rResult' = [kind |-> "bytes", data |-> RecvResult(rBuf', rTotal)]

\* _recv, lines 414-419: a Consecutive frame of the response
RequestRecvCF ==
  /\ rPc = "cf_loop"
  /\ \/ /\ chanBA # << >>
        /\ RequestOnConsecutive(Head(chanBA))
        /\ chanBA' = Tail(chanBA)
        /\ UNCHANGED tpTimedOut
     \/ /\ chanBA = << >>
        /\ RequestOnConsecutive(NoFrame)
        /\ tpTimedOut' = TRUE
        /\ UNCHANGED chanBA
  /\ UNCHANGED <<tpPayload, aPc, aLoc, aErr, aSent, chanAB, rTotal, bPc, bBuf, bTotal, bResult>>
  /\ UNCHANGED <<keyVars, patchVars, wfVars, opVars>>

\* A frame arrives on the idle bus for A.
PeerSend ==
  /\ chanBA = << >>
  /\ \E f \in PeerFrames : chanBA' = Append(chanBA, f)
  /\ UNCHANGED <<tpPayload, aPc, aLoc, aErr, aSent, chanAB, bPc, bBuf, bTotal, bResult, tpTimedOut>>
  /\ UNCHANGED rVars
  /\ UNCHANGED <<keyVars, patchVars, wfVars, opVars>>

\* A frame A has sent leaves the bus.
PeerTake ==
  /\ chanAB # << >>
  /\ chanAB' = Tail(chanAB)
  /\ UNCHANGED <<tpPayload, aPc, aLoc, aErr, aSent, chanBA, bPc, bBuf, bTotal, bResult, tpTimedOut>>
  /\ UNCHANGED rVars
  /\ UNCHANGED <<keyVars, patchVars, wfVars, opVars>>

NextRequest ==
  \/ SendStart \/ SendAwaitFC \/ SendCF \/ SendAwaitFCMid
  \/ RequestRecvFirst \/ RequestRecvCF
  \/ PeerSend \/ PeerTake

SpecRequest == InitRequest /\ [][NextRequest]_vars

(* ---- The flash workflow: main() with --flash, FlashController.flash_image *)
(* Every _kwp call is two steps, the request put on the bus and the          *)
(* response taken from it; the tester-present thread and the ECU run between *)
(* them.                                                                     *)

Init ==
  /\ flashImage \in Images
  /\ chunkArg \in ChunkArgs
  /\ pc = "enter_session" /\ phase = "tx"
  /\ loc = [seed |-> 0, block |-> 0, offset |-> 0, counter |-> 0, addr |-> 0]
  /\ exc = NoExc /\ mainLog = << >> /\ lastResp = << >> /\ flashRet = "none"
  /\ tester = [started |-> FALSE, stop |-> FALSE, joined |-> FALSE]
  /\ hbPc = "idle" /\ hbBeats = 0 /\ ecuIn = << >> /\ rxq = << >>
  /\ ecu = [mem |-> [i \in 1..FLASH_SIZE |-> 0], ptr |-> 0, seen |-> 0, refusedAt |-> 0]
  /\ KeyIdle
  /\ PatchIdle
  /\ TpIdle
  /\ OpIdle

RuntimeError(msg) == [kind |-> "RuntimeError", msg |-> msg, addr |-> -1]

\* What tp.request returns to _kwp, as `resp or b""`: the next response on the
\* bus, or nothing when none is there within the timeout.
Received == IF rxq = << >> THEN << >> ELSE Head(rxq)

PopRx == rxq' = IF rxq = << >> THEN rxq ELSE Tail(rxq)

\* The log of the main task's exchanges keeps each request and the first byte
\* of what _kwp returned for it: Pending before that, NoResponse for b"".
Pending    == -2
NoResponse == -1
FirstByte(resp) == IF resp = << >> THEN NoResponse ELSE resp[1]

\* _kwp, first half, called by the main task: the request goes out.
MainTx(req) ==
  /\ phase = "tx"
  /\ ecuIn' = Append(ecuIn, req)
  /\ mainLog' = Append(mainLog, [req |-> req, rc |-> Pending])
  /\ phase' = "rx"
  /\ UNCHANGED <<flashImage, chunkArg, pc, loc, exc, lastResp, flashRet, tester, hbPc, hbBeats, rxq, ecu>>
  /\ UNCHANGED <<keyVars, patchVars, tpVars, opVars>>

\* _kwp, second half, called by the main task: the response comes back.
KwpRx ==
  /\ phase = "rx"
  /\ PopRx
  /\ mainLog' = [mainLog EXCEPT ![Len(mainLog)].rc = FirstByte(Received)]
  /\ lastResp' = Received
  /\ UNCHANGED <<flashImage, chunkArg, flashRet, tester, hbPc, hbBeats, ecuIn, ecu>>
  /\ UNCHANGED <<keyVars, patchVars, tpVars>>

\* The same in the callers that keep no buffer or result of their own.
MainRx == KwpRx /\ UNCHANGED opVars

\* An exception leaves main(): the workflow has failed.
Raise(e) == pc' = "failed" /\ phase' = "-" /\ exc' = e

\* The failed request is sent once more instead of the exception being raised.
RaiseInTry_Retry(e) == pc' = pc /\ phase' = "tx" /\ exc' = exc

\* An exception inside the try block of flash: the finally clause runs first.
RaiseInTry(e) == pc' = "finally_stop" /\ phase' = "-" /\ exc' = e

Goto(p) == pc' = p /\ phase' = "tx" /\ exc' = exc

\* enter_session, lines 475-479
EnterSessionSend == pc = "enter_session" /\ MainTx(ReqEnterSession)

EnterSessionRecv ==
  /\ pc = "enter_session"
  /\ MainRx
  /\ IF Positive(Received, SID_START_SESSION)
       THEN Goto("seed")
       ELSE Raise(RuntimeError("Cannot enter programming session"))
  /\ UNCHANGED loc

\* security_unlock, lines 482-486
SeedSend == pc = "seed" /\ MainTx(ReqSeed)

SeedRecv ==
  /\ pc = "seed"
  /\ MainRx
  /\ IF Positive(Received, SID_SECURITY_ACCESS)
       THEN /\ Goto("key")
            /\ loc' = [loc EXCEPT !.seed = IntFromBytesBE(Slice(Received, 2, 4))]
       ELSE /\ Raise(RuntimeError("Seed request failed"))
            /\ UNCHANGED loc

\* security_unlock, lines 486-490
KeySend == pc = "key" /\ MainTx(ReqKey(calc_key_msd80(loc.seed)))

KeyRecv ==
  /\ pc = "key"
  /\ MainRx
  /\ IF Positive(Received, SID_SECURITY_ACCESS)
       THEN pc' = "flash" /\ phase' = "-" /\ exc' = exc
       ELSE Raise(RuntimeError("Security key rejected"))
  /\ UNCHANGED loc

\* flash, lines 563-564
FlashBegin ==
  /\ pc = "flash"
  /\ IF Len(flashImage) # FLASH_SIZE
       THEN Raise([kind |-> "ValueError", msg |-> "Image must be exactly 1 MiB", addr |-> -1])
       ELSE Goto("erase")
  /\ UNCHANGED <<flashImage, chunkArg, loc, mainLog, lastResp, flashRet, tester, hbPc, hbBeats, ecuIn, rxq, ecu>>
  /\ UNCHANGED <<keyVars, patchVars, tpVars, opVars>>

\* erase_all, lines 513-519
EraseSend == pc = "erase" /\ MainTx(ReqErase)

EraseRecv ==
  /\ pc = "erase"
  /\ MainRx
  /\ IF Positive(Received, SID_ROUTINE_CONTROL)
       THEN Goto("download")
       ELSE Raise(RuntimeError("Erase routine rejected"))
  /\ UNCHANGED loc

\* The length the ECU reports is not read: the default is always taken.
MaxLenOf_AlwaysDefault(resp) == TRANSFER_SIZE_DEFAULT

\* request_download, lines 526-527: the block size the ECU reports
MaxLenOf(resp) ==
  IF resp[2] # 0 THEN IntFromBytesBE(Slice(resp, 2, 2 + resp[2])) ELSE TRANSFER_SIZE_DEFAULT

\* request_download, lines 521-529, and flash, lines 566-567
DownloadSend == pc = "download" /\ MainTx(ReqDownload(0, Len(flashImage)))

DownloadRecv ==
  /\ pc = "download"
  /\ MainRx
  /\ IF ~Positive(Received, SID_REQUEST_DOWNLOAD)
       THEN /\ Raise(RuntimeError("RequestDownload rejected"))
            /\ UNCHANGED loc
     ELSE IF Len(Received) < 2
       THEN /\ Raise([kind |-> "IndexError", msg |-> "index out of range", addr |-> -1])
            /\ UNCHANGED loc
     ELSE /\ pc' = "start_tester" /\ phase' = "-" /\ exc' = exc
          /\ loc' = [loc EXCEPT !.block = Min(chunkArg, MaxLenOf(Received))]

\* flash, lines 569-570, and the locals of transfer_data, lines 532-534
TesterStart ==
  /\ pc = "start_tester"
  /\ tester' = [tester EXCEPT !.started = TRUE]
  /\ hbPc' = "loop"
  /\ loc' = [loc EXCEPT !.counter = 1, !.offset = 0]
  /\ IF 0 < Len(flashImage) THEN Goto("transfer") ELSE Goto("exit")
  /\ UNCHANGED <<flashImage, chunkArg, mainLog, lastResp, flashRet, hbBeats, ecuIn, rxq, ecu>>
  /\ UNCHANGED <<keyVars, patchVars, tpVars, opVars>>

\* Each block starts one byte late.
TransferChunk_OffByOne == Slice(flashImage, loc.offset + 1, loc.offset + 1 + loc.block)

\* transfer_data, lines 536-538
TransferChunk == Slice(flashImage, loc.offset, loc.offset + loc.block)

\* The requests of enter_session, security_unlock, erase_all and
\* request_download that precede the first TransferData of a run.
StepsBeforeTransfer == 5

\* The number of TransferData requests sent so far.
TransfersSent == Cardinality({ i \in 1..Len(mainLog) : mainLog[i].req[1] = SID_TRANSFER_DATA })

TransferSend ==
  /\ pc = "transfer"
  /\ loc.block > 0 \/ TransfersSent < MaxBlocks
  /\ MainTx(ReqTransfer(loc.counter, TransferChunk))

\* After 0xFF the counter starts again at 1.
NextCounter_SkipZero(counter) == IF counter = 255 THEN 1 ELSE counter + 1

\* transfer_data, line 542: counter = (counter + 1) & 0xFF
NextCounter(counter) == BitAnd(counter + 1, 255)

\* transfer_data, lines 539-543 and the loop test of line 535
TransferRecv ==
  /\ pc = "transfer"
  /\ MainRx
  /\ IF Positive(Received, SID_TRANSFER_DATA)
       THEN /\ loc' = [loc EXCEPT !.offset = loc.offset + Len(TransferChunk),
                                  !.counter = NextCounter(loc.counter)]
            /\ IF loc'.offset < Len(flashImage) THEN Goto("transfer") ELSE Goto("exit")
       ELSE /\ RaiseInTry(RuntimeError("TransferData failed"))
            /\ UNCHANGED loc

\* transfer_exit, lines 545-548
ExitSend == pc = "exit" /\ MainTx(ReqTransferExit)

\* The failure of transfer_exit leaves flash without its finally clause.
ExitRecv_SkipFinally ==
  /\ pc = "exit"
  /\ MainRx
  /\ IF Positive(Received, SID_REQUEST_TRANSFER_EXIT)
       THEN pc' = "finally_stop" /\ phase' = "-" /\ exc' = exc
       ELSE Raise(RuntimeError("TransferExit failed"))
  /\ UNCHANGED loc

ExitRecv ==
  /\ pc = "exit"
  /\ MainRx
  /\ IF Positive(Received, SID_REQUEST_TRANSFER_EXIT)
       THEN pc' = "finally_stop" /\ phase' = "-" /\ exc' = exc
       ELSE RaiseInTry(RuntimeError("TransferExit failed"))
  /\ UNCHANGED loc

\* flash, line 575: tester.stop()
FinallyStop ==
  /\ pc = "finally_stop"
  /\ tester' = [tester EXCEPT !.stop = TRUE]
  /\ pc' = "finally_join"
  /\ UNCHANGED <<flashImage, chunkArg, phase, loc, exc, mainLog, lastResp, flashRet, hbPc, hbBeats, ecuIn, rxq, ecu>>
  /\ UNCHANGED <<keyVars, patchVars, tpVars, opVars>>

\* What tester.join(timeout=2) may do.  It returns, the thread ended or not.
\* Line 442 stores the stop event in self._stop, the name of a method of
\* threading.Thread that join calls, up to CPython 3.12, once it finds the
\* thread ended: there the call raises TypeError; later versions have no such
\* method.
JoinOutcomes == IF hbPc = "done" THEN {"returns", "TypeError"} ELSE {"returns"}

\* join does not wait for the thread.
JoinReturns_NoWait == TRUE

\* Where the heartbeat thread is when tester.join(timeout=2) comes back: it
\* has ended, or the two seconds have passed with the thread in bus.recv, the
\* one call of its loop that can last that long (its timeout is a parameter of
\* the run); with the flag set, the wait of line 454 and the loop test go by
\* at once.
JoinReturns == hbPc \in {"done", "rx"}

\* flash, lines 576-577: tester.join(timeout=2); then flash returns, or the
\* pending exception, or the one join raised in its place, goes on to main().
FinallyJoin ==
  /\ pc = "finally_join"
  /\ JoinReturns
  /\ tester' = [tester EXCEPT !.joined = TRUE]
  /\ \E outcome \in JoinOutcomes :
       IF outcome = "TypeError"
         THEN /\ exc' = [kind |-> "TypeError", msg |-> "'Event' object is not callable", addr |-> -1]
              /\ flashRet' = "raised"
              /\ pc' = "failed" /\ phase' = "-"
              /\ UNCHANGED loc
       ELSE IF exc.kind = ""
         THEN /\ flashRet' = "ok"
              /\ pc' = "verify" /\ phase' = "tx"
              /\ loc' = [loc EXCEPT !.addr = 0]
              /\ UNCHANGED exc
         ELSE /\ flashRet' = "raised"
              /\ pc' = "failed" /\ phase' = "-"
              /\ UNCHANGED <<loc, exc>>
  /\ UNCHANGED <<flashImage, chunkArg, mainLog, lastResp, hbPc, hbBeats, ecuIn, rxq, ecu>>
  /\ UNCHANGED <<keyVars, patchVars, tpVars, opVars>>

\* verify, line 582: the length asked of read_block
VerifyLength == Min(VERIFY_CHUNK, Len(flashImage) - loc.addr)

\* verify, lines 581-582, and read_block, lines 505-508 (the length is within
\* 1..65535 on every turn of the loop, so read_block does not raise ValueError)
VerifySend ==
  /\ pc = "verify"
  /\ VerifyLength > 0 /\ VerifyLength <= 65535
  /\ MainTx(ReqReadBlock(loc.addr, VerifyLength))

\* The address of the first byte of data, read at addr, that differs from
\* expected (addr itself when none differs).
MismatchAddr_Byte(addr, data, expected) ==
  LET diff == { i \in 1..Min(Len(data), Len(expected)) : data[i] # expected[i] }
  IN  IF diff = {} THEN addr ELSE addr + (CHOOSE i \in diff : \A j \in diff : i <= j) - 1

\* verify, line 584: the address reported with a mismatch
MismatchAddr(addr, data, expected) == addr

\* The comparison is left out.
VerifyEqual_SkipCompare(data, addr) == TRUE

\* Data that does not fill the stride counts as a mismatch.
VerifyEqual_FullLength(data, addr) ==
  data = Slice(flashImage, addr, addr + Min(VERIFY_CHUNK, Len(flashImage) - addr))

\* verify, line 583: data != image[addr : addr + len(data)], negated
VerifyEqual(data, addr) == data = Slice(flashImage, addr, addr + Len(data))

\* read_block, lines 509-511, and verify, lines 583-585
VerifyRecv ==
  /\ pc = "verify"
  /\ MainRx
  /\ LET data == Slice(Received, 1, Len(Received))
     IN  IF ~Positive(Received, SID_READ_MEMORY_BY_ADDR)
           THEN /\ Raise(RuntimeError("ReadMemoryByAddress failed"))
                /\ UNCHANGED loc
         ELSE IF ~VerifyEqual(data, loc.addr)
           THEN /\ Raise([kind |-> "RuntimeError", msg |-> "Verification mismatch",
                          addr |-> MismatchAddr(loc.addr, data, Slice(flashImage, loc.addr, loc.addr + Len(data)))])
                /\ UNCHANGED loc
         ELSE /\ loc' = [loc EXCEPT !.addr = loc.addr + VERIFY_CHUNK]
              /\ exc' = exc
              /\ IF loc'.addr < Len(flashImage)
                   THEN pc' = "verify" /\ phase' = "tx"
                   ELSE pc' = "done" /\ phase' = "-"

\* The loop has no test of the stop flag.
HbTest_NoStopTest ==
  /\ hbPc = "loop"
  /\ hbBeats < MaxBeats
  /\ hbPc' = "tx"
  /\ UNCHANGED <<flashImage, chunkArg, pc, phase, loc, exc, mainLog, lastResp, flashRet, tester, hbBeats, ecuIn, rxq, ecu>>
  /\ UNCHANGED <<keyVars, patchVars, tpVars, opVars>>

\* TesterPresentThread.run, line 448 (after the wait of line 454): the loop
\* test.  The thread sends at most MaxBeats requests.
HbTest ==
  /\ hbPc = "loop"
  /\ tester.stop \/ hbBeats < MaxBeats
  /\ hbPc' = IF tester.stop THEN "done" ELSE "tx"
  /\ UNCHANGED <<flashImage, chunkArg, pc, phase, loc, exc, mainLog, lastResp, flashRet, tester, hbBeats, ecuIn, rxq, ecu>>
  /\ UNCHANGED <<keyVars, patchVars, tpVars, opVars>>

\* TesterPresentThread.run, line 450: _kwp, first half
HbSend ==
  /\ hbPc = "tx"
  /\ ecuIn' = Append(ecuIn, ReqTesterPresent)
  /\ hbBeats' = hbBeats + 1
  /\ hbPc' = "rx"
  /\ UNCHANGED <<flashImage, chunkArg, pc, phase, loc, exc, mainLog, lastResp, flashRet, tester, rxq, ecu>>
  /\ UNCHANGED <<keyVars, patchVars, tpVars, opVars>>

\* TesterPresentThread.run, lines 450-454: _kwp, second half; whatever comes
\* back is dropped, and the thread waits for its interval or the stop flag.
HbRecv ==
  /\ hbPc = "rx"
  /\ PopRx
  /\ hbPc' = "loop"
  /\ UNCHANGED <<flashImage, chunkArg, pc, phase, loc, exc, mainLog, lastResp, flashRet, tester, hbBeats, ecuIn, ecu>>
  /\ UNCHANGED <<keyVars, patchVars, tpVars, opVars>>

\* The ECU takes the oldest request off the bus and answers it, or not.
EcuRespond ==
  /\ ecuIn # << >>
  /\ \E ans \in EcuAnswers(Head(ecuIn), ecu) :
       /\ rxq' = IF ans = << >> THEN rxq ELSE Append(rxq, ans)
       /\ ecu' = EcuAfter(Head(ecuIn), ans, ecu)
  /\ ecuIn' = Tail(ecuIn)
  /\ UNCHANGED <<flashImage, chunkArg, pc, phase, loc, exc, mainLog, lastResp, flashRet, tester, hbPc, hbBeats>>
  /\ UNCHANGED <<keyVars, patchVars, tpVars, opVars>>

Next ==
  \/ EnterSessionSend \/ EnterSessionRecv
  \/ SeedSend \/ SeedRecv
  \/ KeySend \/ KeyRecv
  \/ FlashBegin
  \/ EraseSend \/ EraseRecv
  \/ DownloadSend \/ DownloadRecv
  \/ TesterStart
  \/ TransferSend \/ TransferRecv
  \/ ExitSend \/ ExitRecv
  \/ FinallyStop \/ FinallyJoin
  \/ VerifySend \/ VerifyRecv
  \/ HbTest \/ HbSend \/ HbRecv
  \/ EcuRespond

Spec == Init /\ [][Next]_vars

----------------------------------------------------------------------------
(* ---- Backup: main() with --backup, FlashController.backup_flash, or      *)
(* Flasher.backup called on a Flasher on which no session was opened        *)

\* The stride of backup (chunk = 0x0400, the same as verify's), scaled.
BACKUP_CHUNK == VERIFY_CHUNK

\* What the ECU's flash may hold before a run.
EcuMems == { [i \in 1..FLASH_SIZE |-> i % 256], [i \in 1..FLASH_SIZE |-> (7 * i) % 256] }

InitBackup ==
  /\ flashImage = << >> /\ chunkArg = 0
  /\ \/ pc = "enter_session" /\ bkRound = 0
     \/ pc = "backup" /\ bkRound = 1
  /\ phase = "tx"
  /\ loc = [seed |-> 0, block |-> 0, offset |-> 0, counter |-> 0, addr |-> 0]
  /\ exc = NoExc /\ mainLog = << >> /\ lastResp = << >> /\ flashRet = "none"
  /\ tester = [started |-> FALSE, stop |-> FALSE, joined |-> FALSE]
  /\ hbPc = "idle" /\ hbBeats = 0 /\ ecuIn = << >> /\ rxq = << >>
  /\ \E m \in EcuMems : ecu = [mem |-> m, ptr |-> 0, seen |-> 0, refusedAt |-> 0]
  /\ bkBuf = << >> /\ idIdx = 0 /\ idResult = << >>
  /\ KeyIdle
  /\ PatchIdle
  /\ TpIdle

\* main, lines 733-734: after security_unlock, args.backup is set
BackupBegin ==
  /\ pc = "flash"
  /\ pc' = "backup" /\ phase' = "tx"
  /\ loc' = [loc EXCEPT !.addr = 0]
  /\ bkBuf' = << >> /\ bkRound' = 1
  /\ UNCHANGED <<flashImage, chunkArg, exc, mainLog, lastResp, flashRet, tester, hbPc, hbBeats, ecuIn, rxq, ecu>>
  /\ UNCHANGED <<idIdx, idResult>>
  /\ UNCHANGED <<keyVars, patchVars, tpVars>>

\* backup, line 555: the length asked of read_block
BackupLength == Min(BACKUP_CHUNK, FLASH_SIZE - loc.addr)

\* backup, lines 554-555, and read_block, lines 505-508
BackupSend ==
  /\ pc = "backup"
  /\ BackupLength > 0 /\ BackupLength <= 65535
  /\ MainTx(ReqReadBlock(loc.addr, BackupLength))

\* read_block, lines 509-511, and backup, lines 556-560: whatever data came
\* is appended, and after the last stride backup returns.
BackupRecv ==
  /\ pc = "backup"
  /\ KwpRx
  /\ IF ~Positive(Received, SID_READ_MEMORY_BY_ADDR)
       THEN /\ Raise(RuntimeError("ReadMemoryByAddress failed"))
            /\ UNCHANGED <<loc, bkBuf>>
       ELSE /\ bkBuf' = bkBuf \o Slice(Received, 1, Len(Received))
            /\ loc' = [loc EXCEPT !.addr = loc.addr + BACKUP_CHUNK]
            /\ exc' = exc
            /\ IF loc'.addr < FLASH_SIZE
                 THEN pc' = "backup" /\ phase' = "tx"
                 ELSE pc' = "backup_done" /\ phase' = "-"
  /\ UNCHANGED <<bkRound, idIdx, idResult>>

\* The answers of an ECU that gives at most one positive read response that
\* is not the data asked for in a run: once the buffer has gone wrong, reads
\* are answered with the right data, negatively or not at all.
BackupAnswers(req, e) ==
  IF req[1] = SID_READ_MEMORY_BY_ADDR
     /\ bkBuf # EcuRead(e.mem, 0, IntFromBytesBE(Slice(req, 2, 6)))
    THEN { <<pos(req[1])>> \o EcuRead(e.mem, IntFromBytesBE(Slice(req, 2, 6)),
                                      IntFromBytesBE(Slice(req, 7, 11))),
           Negative(req), << >> }
    ELSE EcuAnswers(req, e)

EcuRespondBackup ==
  /\ ecuIn # << >>
  /\ \E ans \in BackupAnswers(Head(ecuIn), ecu) :
       /\ rxq' = IF ans = << >> THEN rxq ELSE Append(rxq, ans)
       /\ ecu' = EcuAfter(Head(ecuIn), ans, ecu)
  /\ ecuIn' = Tail(ecuIn)
  /\ UNCHANGED <<flashImage, chunkArg, pc, phase, loc, exc, mainLog, lastResp, flashRet, tester, hbPc, hbBeats>>
  /\ UNCHANGED <<keyVars, patchVars, tpVars, opVars>>

NextBackup ==
  \/ EnterSessionSend \/ EnterSessionRecv
  \/ SeedSend \/ SeedRecv
  \/ KeySend \/ KeyRecv
  \/ BackupBegin
  \/ BackupSend \/ BackupRecv
  \/ EcuRespondBackup

SpecBackup == InitBackup /\ [][NextBackup]_vars

----------------------------------------------------------------------------
(* ---- Round trip: backup, flash of what was backed up, backup again, on   *)
(* an ECU that stores what is transferred and serves it on a read           *)

InitRoundTrip ==
  /\ flashImage = << >>
  /\ chunkArg \in ChunkArgs
  /\ pc = "backup" /\ phase = "tx"
  /\ loc = [seed |-> 0, block |-> 0, offset |-> 0, counter |-> 0, addr |-> 0]
  /\ exc = NoExc /\ mainLog = << >> /\ lastResp = << >> /\ flashRet = "none"
  /\ tester = [started |-> FALSE, stop |-> FALSE, joined |-> FALSE]
  /\ hbPc = "idle" /\ hbBeats = 0 /\ ecuIn = << >> /\ rxq = << >>
  /\ \E m \in EcuMems : ecu = [mem |-> m, ptr |-> 0, seen |-> 0, refusedAt |-> 0]
  /\ bkBuf = << >> /\ bkRound = 1 /\ idIdx = 0 /\ idResult = << >>
  /\ KeyIdle
  /\ PatchIdle
  /\ TpIdle

\* The first backup returned: flash is called with what it read.
RoundTripFlash ==
  /\ pc = "backup_done" /\ bkRound = 1
  /\ flashImage' = bkBuf
  /\ pc' = "flash"
  /\ UNCHANGED <<chunkArg, phase, loc, exc, mainLog, lastResp, flashRet, tester, hbPc, hbBeats, ecuIn, rxq, ecu>>
  /\ UNCHANGED <<keyVars, patchVars, tpVars, opVars>>

\* flash returned: backup is called a second time.
RoundTripBackup ==
  /\ pc = "verify" /\ bkRound = 1
  /\ pc' = "backup" /\ phase' = "tx"
  /\ loc' = [loc EXCEPT !.addr = 0]
  /\ bkBuf' = << >> /\ bkRound' = 2
  /\ UNCHANGED <<flashImage, chunkArg, exc, mainLog, lastResp, flashRet, tester, hbPc, hbBeats, ecuIn, rxq, ecu>>
  /\ UNCHANGED <<idIdx, idResult>>
  /\ UNCHANGED <<keyVars, patchVars, tpVars>>

\* The answers of the cooperative ECU: always positive, a read with exactly
\* the bytes it holds, RequestDownload with any block length.
CoopAnswers(req, e) ==
  IF req[1] = SID_READ_MEMORY_BY_ADDR
    THEN { <<pos(req[1])>> \o EcuRead(e.mem, IntFromBytesBE(Slice(req, 2, 6)),
                                      IntFromBytesBE(Slice(req, 7, 11))) }
    ELSE { ans \in EcuPositive(req, e) : Len(ans) >= 2 \/ req[1] # SID_REQUEST_DOWNLOAD }

EcuRespondCoop ==
  /\ ecuIn # << >>
  /\ \E ans \in CoopAnswers(Head(ecuIn), ecu) :
       /\ rxq' = Append(rxq, ans)
       /\ ecu' = EcuAfter(Head(ecuIn), ans, ecu)
  /\ ecuIn' = Tail(ecuIn)
  /\ UNCHANGED <<flashImage, chunkArg, pc, phase, loc, exc, mainLog, lastResp, flashRet, tester, hbPc, hbBeats>>
  /\ UNCHANGED <<keyVars, patchVars, tpVars, opVars>>

NextRoundTrip ==
  \/ BackupSend \/ BackupRecv
  \/ RoundTripFlash
  \/ FlashBegin
  \/ EraseSend \/ EraseRecv
  \/ DownloadSend \/ DownloadRecv
  \/ TesterStart
  \/ TransferSend \/ TransferRecv
  \/ ExitSend \/ ExitRecv
  \/ FinallyStop \/ FinallyJoin
  \/ RoundTripBackup
  \/ HbTest \/ HbSend \/ HbRecv
  \/ EcuRespondCoop

SpecRoundTrip == InitRoundTrip /\ [][NextRoundTrip]_vars

----------------------------------------------------------------------------
(* ---- FlashImage.validate and the start of FlashController.flash_image    *)

\* validate, line 65: the length of the prefix looked at
BLANK_PREFIX == 32

\* Any 0xFF byte in the prefix makes the image count as blank.
validate_AnyBlank(data) ==
  IF Len(data) # FLASH_SIZE
    THEN [ok |-> FALSE, message |-> "Image must be exactly 1 MiB for MSD80/81"]
  ELSE IF \E i \in 1..Len(Slice(data, 0, BLANK_PREFIX)) : data[i] = 255
    THEN [ok |-> FALSE, message |-> "Image appears to be blank"]
  ELSE [ok |-> TRUE, message |-> "Image validated successfully"]

\* FlashImage.validate, lines 59-68
validate(data) ==
  IF Len(data) # FLASH_SIZE
    THEN [ok |-> FALSE, message |-> "Image must be exactly 1 MiB for MSD80/81"]
  ELSE IF \A i \in 1..Len(Slice(data, 0, BLANK_PREFIX)) : data[i] = 255
    THEN [ok |-> FALSE, message |-> "Image appears to be blank"]
  ELSE [ok |-> TRUE, message |-> "Image validated successfully"]

\* Images of n bytes: all 0xFF, all zero, and all 0xFF but for one byte.
ImagesOfLen(n) ==
  { [i \in 1..n |-> 255], [i \in 1..n |-> 0] }
    \cup { [i \in 1..n |-> IF i = p THEN 18 ELSE 255] : p \in 1..n }

ValidateImages ==
  ImagesOfLen(FLASH_SIZE) \cup ImagesOfLen(FLASH_SIZE - 1) \cup ImagesOfLen(FLASH_SIZE + 1)
    \cup ImagesOfLen(0)

InitValidate ==
  /\ flashImage \in ValidateImages
  /\ chunkArg = TRANSFER_SIZE_DEFAULT
  /\ pc = "validate" /\ phase = "-"
  /\ loc = [seed |-> 0, block |-> 0, offset |-> 0, counter |-> 0, addr |-> 0]
  /\ exc = NoExc /\ mainLog = << >> /\ lastResp = << >> /\ flashRet = "none"
  /\ tester = [started |-> FALSE, stop |-> FALSE, joined |-> FALSE]
  /\ hbPc = "idle" /\ hbBeats = 0 /\ ecuIn = << >> /\ rxq = << >>
  /\ ecu = [mem |-> [i \in 1..FLASH_SIZE |-> 0], ptr |-> 0, seen |-> 0, refusedAt |-> 0]
  /\ KeyIdle
  /\ PatchIdle
  /\ TpIdle
  /\ OpIdle

\* flash_image, lines 126-129: an image that fails validation makes it log the
\* message and return False; otherwise it goes on to enter_session.
FlashImageValidate ==
  /\ pc = "validate"
  /\ LET v == validate(flashImage)
     IN  IF v.ok
           THEN Goto("enter_session")
           ELSE /\ pc' = "failed" /\ phase' = "-"
                /\ exc' = [kind |-> "rejected", msg |-> v.message, addr |-> -1]
  /\ UNCHANGED <<flashImage, chunkArg, loc, mainLog, lastResp, flashRet, tester, hbPc, hbBeats, ecuIn, rxq, ecu>>
  /\ UNCHANGED <<keyVars, patchVars, tpVars, opVars>>

NextValidate == FlashImageValidate \/ EnterSessionSend

SpecValidate == InitValidate /\ [][NextValidate]_vars

----------------------------------------------------------------------------
(* ---- The programming phase of flash, with the scheduling of the          *)
(* heartbeat thread: a thread that can take a step eventually takes it, and *)
(* bus.recv returns within its timeout                                      *)

\* flash, line 568: RequestDownload was answered and the block size is known
InitCancel ==
  /\ flashImage = [i \in 1..FLASH_SIZE |-> i % 256]
  /\ chunkArg \in ChunkArgs
  /\ pc = "start_tester" /\ phase = "-"
  /\ loc = [seed |-> 0, block |-> chunkArg, offset |-> 0, counter |-> 0, addr |-> 0]
  /\ exc = NoExc /\ mainLog = << >> /\ lastResp = << >> /\ flashRet = "none"
  /\ tester = [started |-> FALSE, stop |-> FALSE, joined |-> FALSE]
  /\ hbPc = "idle" /\ hbBeats = 0 /\ ecuIn = << >> /\ rxq = << >>
  /\ ecu = [mem |-> [i \in 1..FLASH_SIZE |-> 255], ptr |-> 0, seen |-> 0, refusedAt |-> 0]
  /\ OpIdle
  /\ KeyIdle
  /\ PatchIdle
  /\ TpIdle

NextCancel ==
  \/ TesterStart
  \/ TransferSend \/ TransferRecv
  \/ ExitSend \/ ExitRecv
  \/ FinallyStop \/ FinallyJoin
  \/ HbTest \/ HbSend \/ HbRecv
  \/ EcuRespond

SpecCancel ==
  /\ InitCancel /\ [][NextCancel]_vars
  /\ WF_vars(HbTest) /\ WF_vars(HbSend) /\ WF_vars(HbRecv)

----------------------------------------------------------------------------
(* ---- enter_session, security_unlock and the start of flash up to the     *)
(* block size, with an ECU that may send any seed and truncated responses   *)

\* The answers of that ECU: to the seed request, one of five seeds, a
\* positive response cut after 1, 2 or 3 bytes, or a refusal; to the key,
\* acceptance or refusal; to RequestDownload, also a response that names two
\* length bytes and carries one, or names one and carries none.
UnlockAnswers(req, e) ==
  CASE req[1] = SID_SECURITY_ACCESS /\ req[2] = 1 ->
         { <<pos(req[1]), 1, ShiftR(sd, 8), BitAnd(sd, 255)>> : sd \in {0, EcuSeed, 23100, 32768, MASK16} }
           \cup { <<pos(req[1])>>, <<pos(req[1]), 1>>, <<pos(req[1]), 1, 18>> }
           \cup { Negative(req), WrongEcho(req), << >> }
    [] req[1] = SID_SECURITY_ACCESS /\ req[2] # 1 ->
         { <<pos(req[1]), 2>>, Negative(req), << >> }
    [] req[1] = SID_REQUEST_DOWNLOAD ->
         EcuAnswers(req, e) \cup { <<pos(req[1]), 2, 0>>, <<pos(req[1]), 1>> }
    [] OTHER -> EcuAnswers(req, e)

InitUnlock ==
  /\ flashImage = [i \in 1..FLASH_SIZE |-> i % 256]
  /\ chunkArg \in ChunkArgs
  /\ pc = "enter_session" /\ phase = "tx"
  /\ loc = [seed |-> 0, block |-> 0, offset |-> 0, counter |-> 0, addr |-> 0]
  /\ exc = NoExc /\ mainLog = << >> /\ lastResp = << >> /\ flashRet = "none"
  /\ tester = [started |-> FALSE, stop |-> FALSE, joined |-> FALSE]
  /\ hbPc = "idle" /\ hbBeats = 0 /\ ecuIn = << >> /\ rxq = << >>
  /\ ecu = [mem |-> [i \in 1..FLASH_SIZE |-> 0], ptr |-> 0, seen |-> 0, refusedAt |-> 0]
  /\ KeyIdle
  /\ PatchIdle
  /\ TpIdle
  /\ OpIdle

EcuRespondUnlock ==
  /\ ecuIn # << >>
  /\ \E ans \in UnlockAnswers(Head(ecuIn), ecu) :
       /\ rxq' = IF ans = << >> THEN rxq ELSE Append(rxq, ans)
       /\ ecu' = EcuAfter(Head(ecuIn), ans, ecu)
  /\ ecuIn' = Tail(ecuIn)
  /\ UNCHANGED <<flashImage, chunkArg, pc, phase, loc, exc, mainLog, lastResp, flashRet, tester, hbPc, hbBeats>>
  /\ UNCHANGED <<keyVars, patchVars, tpVars, opVars>>

NextUnlock ==
  \/ EnterSessionSend \/ EnterSessionRecv
  \/ SeedSend \/ SeedRecv
  \/ KeySend \/ KeyRecv
  \/ FlashBegin
  \/ EraseSend \/ EraseRecv
  \/ DownloadSend \/ DownloadRecv
  \/ EcuRespondUnlock

SpecUnlock == InitUnlock /\ [][NextUnlock]_vars

----------------------------------------------------------------------------
(* ---- request_download and transfer_data against an ECU that answers      *)
(* every request positively, the main task and the ECU never held up        *)

\* flash, line 566, reached after erase_all; the heartbeat thread, once
\* started, is still in its first wait.
InitDownload ==
  /\ flashImage = [i \in 1..FLASH_SIZE |-> i % 256]
  /\ chunkArg \in ChunkArgs
  /\ pc = "download" /\ phase = "tx"
  /\ loc = [seed |-> 0, block |-> 0, offset |-> 0, counter |-> 0, addr |-> 0]
  /\ exc = NoExc /\ mainLog = << >> /\ lastResp = << >> /\ flashRet = "none"
  /\ tester = [started |-> FALSE, stop |-> FALSE, joined |-> FALSE]
  /\ hbPc = "idle" /\ hbBeats = 0 /\ ecuIn = << >> /\ rxq = << >>
  /\ ecu = [mem |-> [i \in 1..FLASH_SIZE |-> 255], ptr |-> 0, seen |-> 0, refusedAt |-> 0]
  /\ OpIdle
  /\ KeyIdle
  /\ PatchIdle
  /\ TpIdle

NextDownload ==
  \/ DownloadSend \/ DownloadRecv
  \/ TesterStart
  \/ TransferSend \/ TransferRecv
  \/ ExitSend
  \/ EcuRespondCoop

SpecDownload ==
  /\ InitDownload /\ [][NextDownload]_vars
  /\ WF_vars(DownloadSend) /\ WF_vars(DownloadRecv) /\ WF_vars(TesterStart)
  /\ WF_vars(TransferSend) /\ WF_vars(TransferRecv) /\ WF_vars(ExitSend)
  /\ WF_vars(EcuRespondCoop)

----------------------------------------------------------------------------
(* ---- transfer_data called with more than 256 blocks                     *)

\* The length of the data handed to transfer_data: with blocks of one byte,
\* enough for the counter to pass 0xFF.
WrapLen == 258

\* transfer_data, lines 532-534, called with WrapLen bytes and a block of one
\* or two bytes; no heartbeat thread runs.
InitTransfer ==
  /\ flashImage = [i \in 1..WrapLen |-> i % 256]
  /\ chunkArg \in {1, 2}
  /\ pc = "transfer" /\ phase = "tx"
  /\ loc = [seed |-> 0, block |-> chunkArg, offset |-> 0, counter |-> 1, addr |-> 0]
  /\ exc = NoExc /\ mainLog = << >> /\ lastResp = << >> /\ flashRet = "none"
  /\ tester = [started |-> FALSE, stop |-> FALSE, joined |-> FALSE]
  /\ hbPc = "idle" /\ hbBeats = 0 /\ ecuIn = << >> /\ rxq = << >>
  /\ ecu = [mem |-> [i \in 1..WrapLen |-> 255], ptr |-> 0, seen |-> 0, refusedAt |-> 0]
  /\ OpIdle
  /\ KeyIdle
  /\ PatchIdle
  /\ TpIdle

NextTransfer == TransferSend \/ TransferRecv \/ EcuRespond

SpecTransfer == InitTransfer /\ [][NextTransfer]_vars

----------------------------------------------------------------------------
(* ---- read_ecu_id: the four identification requests                      *)

\* read_ecu_id, line 494: the identifiers, in the order of the loop
IDENTIFIERS == <<144, 146, 148, 151>>    \* 0x90, 0x92, 0x94, 0x97

ReqReadEcuId(ident) == <<SID_READ_ECU_ID, ident>>

\* The payload is taken from the echoed identifier on.
IdPayload_FromEcho(resp) == Slice(resp, 1, Len(resp))

\* read_ecu_id, line 500: resp[2:]
IdPayload(resp) == Slice(resp, 2, Len(resp))

\* What the ECU may put after the echoed identifier.
IdData == { << >>, <<65>>, <<65, 0>> }

\* The answers the ECU may give to ReadECUIdentification: positive with or
\* without the identifier and data, negative, another first byte, or none.
IdAnswers(req) ==
  { <<pos(SID_READ_ECU_ID), req[2]>> \o d : d \in IdData }
    \cup { <<pos(SID_READ_ECU_ID)>>, Negative(req), WrongEcho(req), << >> }

InitInfo ==
  /\ flashImage = << >> /\ chunkArg = 0
  /\ pc = "read_id" /\ phase = "tx"
  /\ loc = [seed |-> 0, block |-> 0, offset |-> 0, counter |-> 0, addr |-> 0]
  /\ exc = NoExc /\ mainLog = << >> /\ lastResp = << >> /\ flashRet = "none"
  /\ tester = [started |-> FALSE, stop |-> FALSE, joined |-> FALSE]
  /\ hbPc = "idle" /\ hbBeats = 0 /\ ecuIn = << >> /\ rxq = << >>
  /\ \E m \in EcuMems : ecu = [mem |-> m, ptr |-> 0, seen |-> 0, refusedAt |-> 0]
  /\ OpIdle
  /\ KeyIdle
  /\ PatchIdle
  /\ TpIdle

\* read_ecu_id, lines 496-497: the request for the next identifier
ReadIdSend ==
  /\ pc = "read_id"
  /\ idIdx < Len(IDENTIFIERS)
  /\ MainTx(ReqReadEcuId(IDENTIFIERS[idIdx + 1]))

\* read_ecu_id, lines 497-501: a positive response is entered in the result
\* under its identifier, any other is passed over; after the last identifier
\* the result is returned.
ReadIdRecv ==
  /\ pc = "read_id"
  /\ KwpRx
  /\ idResult' = IF Positive(Received, SID_READ_ECU_ID)
                   THEN Append(idResult, [ident |-> IDENTIFIERS[idIdx + 1], payload |-> IdPayload(Received)])
                   ELSE idResult
  /\ idIdx' = idIdx + 1
  /\ exc' = exc
  /\ IF idIdx' < Len(IDENTIFIERS)
       THEN pc' = "read_id" /\ phase' = "tx"
       ELSE pc' = "id_done" /\ phase' = "-"
  /\ UNCHANGED <<loc, bkBuf, bkRound>>

EcuRespondInfo ==
  /\ ecuIn # << >>
  /\ \E ans \in IdAnswers(Head(ecuIn)) :
       rxq' = IF ans = << >> THEN rxq ELSE Append(rxq, ans)
  /\ ecuIn' = Tail(ecuIn)
  /\ UNCHANGED <<flashImage, chunkArg, pc, phase, loc, exc, mainLog, lastResp, flashRet, tester, hbPc, hbBeats, ecu>>
  /\ UNCHANGED <<keyVars, patchVars, tpVars, opVars>>

NextInfo == ReadIdSend \/ ReadIdRecv \/ EcuRespondInfo

SpecInfo == InitInfo /\ [][NextInfo]_vars

----------------------------------------------------------------------------
(* Claims                                                                  *)

\* Bit i of x.
BitOf(x, i) == (x \div (2 ^ i)) % 2

\* XOR of two 16-bit values, bit by bit from its truth table.
Xor16(a, b) ==
  LET RECURSIVE upto(_)
      upto(i) == IF i < 0 THEN 0
                 ELSE (IF BitOf(a, i) # BitOf(b, i) THEN 2 ^ i ELSE 0) + upto(i - 1)
  IN  upto(15)

\* C4: for every seed s in [0, 0xFFFF] the key computed by calc_key_msd80 is
\* ((s XOR 0x5A3C) + 0x7F1B) mod 2^16, lies in [0, 0xFFFF], and seed 0x1234
\* gives key 0xC723.
C4_KeyFormula ==
  key # -1 =>
    /\ key = (Xor16(seed, 23100) + 32539) % 65536
    /\ key \in 0..65535
    /\ (seed = 4660 => key = 50979)

\* A key was computed whose sum exceeded 16 bits before the mask.
C4_Witness ==
  /\ key # -1
  /\ Xor16(seed, 23100) + 32539 > 65535

\* Word k (1-based) of the CAL region of img, big-endian.
CalWordAt(img, k) == (256 * img[CAL_START + (2 * k) - 1]) + img[CAL_START + (2 * k)]

\* The sum of the first k words of the CAL region of img.
RECURSIVE CalSumTo(_, _)
CalSumTo(img, k) == IF k = 0 THEN 0 ELSE CalWordAt(img, k) + CalSumTo(img, k - 1)

\* C5: whenever patch_vin succeeds on an image of FLASH_SIZE bytes, the sum of
\* all 16-bit big-endian words of the returned image's CAL region, the final
\* checksum word included, is 0 modulo 2^16.
C5_CalSumZero ==
  pout.status = "ok" =>
    /\ Len(pout.image) = FLASH_SIZE
    /\ CalSumTo(pout.image, CAL_SIZE \div 2) % 65536 = 0

\* patch_vin succeeded on an image whose CAL words did not sum to zero, the
\* sum of the words before the checksum word overflowing 16 bits.
C5_Witness ==
  /\ pout.status = "ok"
  /\ CalSumTo(pimage, CAL_SIZE \div 2) % 65536 # 0
  /\ CalSumTo(pout.image, (CAL_SIZE \div 2) - 1) > 65535
  /\ pout.image # pimage

\* C2: the frames _send emits for a payload P, received in order by _recv of
\* the peer endpoint (which answers the First frame with a FlowControl of
\* BS = 0), reassemble to exactly P: whatever _recv returns as bytes is P, and
\* when no receive timed out it does return bytes.
C2_RoundTrip ==
  /\ (bResult.kind = "bytes" => bResult.data = tpPayload)
  /\ (bPc \in {"returned", "error"} /\ ~tpTimedOut => bResult.kind = "bytes")

\* A payload of the maximum length 4095 was reassembled without any timeout.
C2_Witness ==
  /\ bResult.kind = "bytes"
  /\ Len(tpPayload) = 4095
  /\ bResult.data = tpPayload
  /\ ~tpTimedOut

\* PCI type (high nibble) of a sent frame.
PciType(f) == f.data[1] \div 16

\* The number of data frames _send is to emit for a payload of n bytes.
ExpectedFrames(n) == IF n <= 7 THEN 1 ELSE 1 + (((n - 6) + 6) \div 7)

\* C3: _send emits exactly one frame, a Single frame, for a payload of at most
\* 7 bytes; for a longer payload whose First frame the peer answers it emits
\* one First frame followed by ceil((|P| - 6) / 7) Consecutive frames, and no
\* other frame at any point.
C3_FrameCount ==
  LET n == Len(tpPayload)
  IN  /\ Len(aSent) <= ExpectedFrames(n)
      /\ \A i \in 1..Len(aSent) :
           PciType(aSent[i]) = (IF n <= 7 THEN 0 ELSE IF i = 1 THEN 1 ELSE 2)
      /\ (aPc = "sent" => Len(aSent) = ExpectedFrames(n))

\* _send returned after a First frame and at least two Consecutive frames, the
\* last one partly filled.
C3_Witness ==
  /\ aPc = "sent"
  /\ Len(tpPayload) > 7
  /\ (Len(tpPayload) - 6) % 7 # 0
  /\ Len(aSent) >= 3
  /\ Len(aSent) = 1 + (((Len(tpPayload) - 6) + 6) \div 7)

----------------------------------------------------------------------------
(* The flash workflow's claims                                             *)

\* The pcs of a main task that has failed: an exception is on its way out
\* through the finally clause of flash, or has left main().
FailPcs == {"finally_stop", "finally_join", "failed"}

\* C1: every KWP exchange is atomic on the wire: while the main task is
\* between sending a TransferData or RequestTransferExit request and taking
\* its response, the heartbeat is not inside an exchange of its own (it has
\* not sent a TesterPresent whose response it has yet to take), and the main
\* task does not send such a request while the heartbeat is inside one.
C1_ExchangeAtomic ==
  ~(pc \in {"transfer", "exit"} /\ phase = "rx" /\ hbPc = "rx")

\* The place of a request in the workflow.
StepRank(req) ==
  CASE req[1] = SID_START_SESSION -> 0
    [] req[1] = SID_SECURITY_ACCESS /\ req[2] = 1 -> 1
    [] req[1] = SID_SECURITY_ACCESS /\ req[2] # 1 -> 2
    [] req[1] = SID_ROUTINE_CONTROL -> 3
    [] req[1] = SID_REQUEST_DOWNLOAD -> 4
    [] req[1] = SID_TRANSFER_DATA -> 5
    [] req[1] = SID_REQUEST_TRANSFER_EXIT -> 6
    [] req[1] = SID_READ_MEMORY_BY_ADDR -> 7
    [] OTHER -> 8

\* The data parts of the TransferData requests among the first n logged
\* requests, one after the other.
RECURSIVE TransferredTo(_)
TransferredTo(n) ==
  IF n = 0 THEN << >>
  ELSE TransferredTo(n - 1) \o
       (IF mainLog[n].req[1] = SID_TRANSFER_DATA
          THEN Slice(mainLog[n].req, 2, Len(mainLog[n].req)) ELSE << >>)

\* C6: the main task's requests go out in the order session, seed, key, erase
\* (0x31), RequestDownload (0x34), the TransferData blocks (0x36),
\* RequestTransferExit (0x37) and only then the reads of verify (0x23): no
\* step is skipped or taken twice (only TransferData and the reads repeat),
\* RequestTransferExit follows the blocks of the whole image, and a request is
\* sent only after the positive response to the one before it was received.
C6_RequestOrder ==
  /\ mainLog # << >> => StepRank(mainLog[1].req) = 0
  /\ \A i \in 1..(Len(mainLog) - 1) :
       LET r == StepRank(mainLog[i].req)
           n == StepRank(mainLog[i + 1].req)
       IN  /\ mainLog[i].rc = pos(mainLog[i].req[1])
           /\ n \in {r, r + 1}
           /\ (n = r => r \in {5, 7})
  /\ \A i \in 1..Len(mainLog) :
       mainLog[i].req[1] = SID_REQUEST_TRANSFER_EXIT => TransferredTo(i) = flashImage

\* The whole workflow ran, the image going out in more than two blocks.
C6_Witness ==
  /\ pc = "done"
  /\ loc.block = 3
  /\ \E i \in 1..Len(mainLog) : mainLog[i].req[1] = SID_READ_MEMORY_BY_ADDR
  /\ \E i \in 1..Len(mainLog) : mainLog[i].req[1] = SID_REQUEST_TRANSFER_EXIT

\* C7: a step answered negatively or not at all fails the workflow at once.
\* A request to which the main task got anything but the positive response is
\* the last one it sends, and the task is then failing with an exception;
\* and once the ECU has refused a request of the main task (a negative
\* response or none), that request stays the main task's last one, and the
\* task fails as soon as it has taken whatever came back for it.
C7_FailFast ==
  /\ \A i \in 1..Len(mainLog) :
       mainLog[i].rc \notin {Pending, pos(mainLog[i].req[1])} =>
         /\ i = Len(mainLog)
         /\ pc \in FailPcs
         /\ exc.kind # ""
  /\ ecu.refusedAt > 0 =>
       /\ Len(mainLog) = ecu.refusedAt
       /\ (mainLog[Len(mainLog)].rc # Pending => pc \in FailPcs /\ exc.kind # "")

\* The ECU refused a TransferData block after the first with a negative
\* response, the main task received it, and the workflow has failed.
C7_Witness ==
  /\ pc = "failed"
  /\ ecu.refusedAt > StepsBeforeTransfer + 1
  /\ mainLog[Len(mainLog)].req[1] = SID_TRANSFER_DATA
  /\ mainLog[Len(mainLog)].rc = 127
  /\ exc.msg = "TransferData failed"

\* C8: once flash has started the heartbeat, flash has neither returned nor
\* let an exception out unless the heartbeat's stop flag is set and the join
\* was made, on the successful path and on a failure of transfer_data or of
\* transfer_exit alike.
C8_HeartbeatStopped ==
  (tester.started /\ (flashRet # "none" \/ pc \in {"verify", "done", "failed"})) =>
    (tester.stop /\ tester.joined)

\* transfer_exit failed and the error left flash, the heartbeat stopped and
\* joined.
C8_Witness ==
  /\ pc = "failed"
  /\ exc.msg = "TransferExit failed"
  /\ flashRet = "raised"
  /\ tester.started /\ tester.stop /\ tester.joined

IsRead(en) == en.req[1] = SID_READ_MEMORY_BY_ADDR

\* The reads of verify among the main task's requests.
ReadEntries == SelectSeq(mainLog, IsRead)

\* The number of strides of verify over the image.
NumStrides == (Len(flashImage) + VERIFY_CHUNK - 1) \div VERIFY_CHUNK

\* Every stride of the image was read, in order, and answered positively.
AllStridesRead ==
  /\ Len(ReadEntries) = NumStrides
  /\ \A k \in 1..NumStrides :
       LET a == (k - 1) * VERIFY_CHUNK
       IN  /\ ReadEntries[k].req = ReqReadBlock(a, Min(VERIFY_CHUNK, Len(flashImage) - a))
           /\ ReadEntries[k].rc = pos(SID_READ_MEMORY_BY_ADDR)

C10_ExactAddress ==
  (pc = "failed" /\ exc.msg = "Verification mismatch") =>
    LET data     == Slice(lastResp, 1, Len(lastResp))
        expected == Slice(flashImage, loc.addr, loc.addr + Len(data))
    IN  (\E i \in 1..Min(Len(data), Len(expected)) : data[i] # expected[i]) =>
          exc.addr = MismatchAddr_Byte(loc.addr, data, expected)

----------------------------------------------------------------------------
(* The claims on backup                                                    *)

\* C11: backup reports success if and only if the bytes written number
\* FLASH_SIZE: it has not returned normally with an output of another length.
C11_BackupLength == pc = "backup_done" => Len(bkBuf) = FLASH_SIZE

\* C12: a workflow invoked in the wrong session state is rejected before any
\* frame is sent: a ReadMemoryByAddress request goes out only after
\* enter_session and the key step of security_unlock were answered positively.
C12_SessionChecked ==
  \A i \in 1..Len(mainLog) :
    mainLog[i].req[1] = SID_READ_MEMORY_BY_ADDR =>
      /\ \E j \in 1..(i - 1) :
           mainLog[j].req = ReqEnterSession /\ mainLog[j].rc = pos(SID_START_SESSION)
      /\ \E j \in 1..(i - 1) :
           /\ mainLog[j].req[1] = SID_SECURITY_ACCESS /\ mainLog[j].req[2] = 2
           /\ mainLog[j].rc = pos(SID_SECURITY_ACCESS)

----------------------------------------------------------------------------
(* More claims on ISO-TP                                                   *)

\* C13: once a First frame was received, a Consecutive frame that does not
\* come within the timeout before the declared total is reached makes _recv
\* raise the consecutive-frame timeout error: _recv has not ended with fewer
\* bytes reassembled than declared unless it raised that error, and bytes it
\* returns after a First frame number exactly the declared total.
C13_NoPartialPayload ==
  /\ (bTotal > 0 /\ bPc \in {"returned", "error"} /\ Len(bBuf) < bTotal) =>
       /\ bPc = "error"
       /\ bResult = [kind |-> "error", what |-> "Consecutive frame timeout"]
  /\ (bTotal > 0 /\ bResult.kind = "bytes") => Len(bResult.data) = bTotal
  /\ bPc = "error" => bResult.kind = "error"

\* The First frame and at least one Consecutive frame were received, then the
\* wait for the next one timed out with the payload incomplete.
C13_Witness ==
  /\ bPc = "error"
  /\ bResult.kind = "error"
  /\ Len(bBuf) >= 13
  /\ Len(bBuf) < bTotal

----------------------------------------------------------------------------
(* The claims on validation                                                *)

\* The first BLANK_PREFIX bytes of img (or all of it when shorter) are 0xFF.
PrefixBlank(img) == \A i \in 1..Len(img) : i <= 32 => img[i] = 255

\* C14: validate accepts an image exactly when its length is FLASH_SIZE and
\* its first 32 bytes are not all 0xFF; any other length (FLASH_SIZE - 1 and
\* FLASH_SIZE + 1 among them) gives the 'Image must be exactly 1 MiB' message,
\* a blank prefix at the right length gives 'Image appears to be blank', and
\* flash_image on a rejected image returns failure with no request sent.
C14_Validate ==
  pc # "validate" =>
    /\ (pc = "enter_session") = (Len(flashImage) = FLASH_SIZE /\ ~PrefixBlank(flashImage))
    /\ (pc = "failed") = (Len(flashImage) # FLASH_SIZE \/ PrefixBlank(flashImage))
    /\ (Len(flashImage) # FLASH_SIZE =>
          exc.msg = "Image must be exactly 1 MiB for MSD80/81")
    /\ (Len(flashImage) = FLASH_SIZE /\ PrefixBlank(flashImage) =>
          exc.msg = "Image appears to be blank")
    /\ (pc = "failed" => mainLog = << >> /\ ecuIn = << >>)

\* An image of the right length whose only byte other than 0xFF lies past the
\* prefix was rejected as blank.
C14_Witness ==
  /\ pc = "failed"
  /\ Len(flashImage) = FLASH_SIZE
  /\ flashImage[33] # 255
  /\ exc.msg = "Image appears to be blank"
  /\ mainLog = << >>

----------------------------------------------------------------------------
(* More claims on patch_vin                                                *)

\* Python's exception classes: UnicodeEncodeError is a subclass of ValueError.
IsValueError(status) == status \in {"ValueError", "UnicodeEncodeError"}

\* v is 17 characters, all of them ASCII.
ValidVin(v) == Len(v) = 17 /\ \A i \in 1..Len(v) : v[i] <= 127

\* C15: for every new_vin that is not exactly 17 ASCII characters patch_vin
\* fails with the invalid-VIN error, a ValueError (the one it raises itself
\* for a wrong length, the UnicodeEncodeError of encode for a character that
\* is not ASCII), and gives no image.
C15_InvalidVin ==
  (pout.status # "none" /\ ~ValidVin(pvin)) =>
    /\ IsValueError(pout.status)
    /\ (Len(pvin) # 17 => pout.status = "ValueError")
    /\ pout.image = << >>

\* patch_vin failed on a VIN of 17 characters one of which is not ASCII.
C15_Witness ==
  /\ pout.status = "UnicodeEncodeError"
  /\ Len(pvin) = 17
  /\ \E i \in 1..17 : pvin[i] > 127

\* The offsets at which v lies entirely inside the CAL region of img.
CalOccurrences(img, v) ==
  { i \in CAL_START..(CAL_END - Len(v)) : \A k \in 1..Len(v) : img[i + k] = v[k] }

\* The offsets of the checksum word.
ChecksumWord == {CAL_END - 2, CAL_END - 1}

\* C16: patch_vin looks for the 17 bytes of the VIN in [CAL_START, CAL_END)
\* only.  When they do not lie entirely inside CAL (also when they lie in BOOT
\* or CODE, or across a boundary of CAL) it fails with the VIN-not-found
\* RuntimeError and gives no image; when they do, it succeeds, the first
\* occurrence inside CAL holds the VIN afterwards, and nothing outside that
\* occurrence and the checksum word changes.
C16_SearchCalOnly ==
  (pout.status # "none" /\ ValidVin(pvin)) =>
    LET occ == CalOccurrences(pimage, pvin)
    IN  IF occ = {}
          THEN pout.status = "RuntimeError" /\ pout.image = << >>
          ELSE LET first == CHOOSE i \in occ : \A j \in occ : i <= j
               IN  /\ pout.status = "ok"
                   /\ Len(pout.image) = Len(pimage)
                   /\ \A a \in 0..(Len(pimage) - 1) :
                        a \notin ChecksumWord =>
                          pout.image[a + 1] =
                            (IF a >= first /\ a < first + 17
                               THEN pvin[(a - first) + 1] ELSE pimage[a + 1])

\* The VIN lies across the start of CAL, not wholly inside it, and patch_vin
\* failed to find it.
C16_Witness ==
  /\ pout.status = "RuntimeError"
  /\ ValidVin(pvin)
  /\ \E i \in (CAL_START - 16)..(CAL_START - 1) :
       i >= 0 /\ \A k \in 1..17 : pimage[i + k] = pvin[k]

----------------------------------------------------------------------------
(* The round trip                                                          *)

\* C17: on a cooperative ECU, backup, flash of the backed-up image and backup
\* again all return, and the second buffer has FLASH_SIZE bytes identical to
\* the first: no call of the sequence ends in an exception while every
\* request of the main task was answered within the timeout, and when the
\* second backup has returned its buffer is the image that was flashed.
C17_RoundTrip ==
  /\ pc = "failed" => \E i \in 1..Len(mainLog) : mainLog[i].rc = NoResponse
  /\ (pc = "backup_done" /\ bkRound = 2) =>
       /\ Len(bkBuf) = FLASH_SIZE
       /\ bkBuf = flashImage

----------------------------------------------------------------------------
(* The response check of every operation                                   *)

\* The error each operation raises on a response it does not accept, by the
\* step of the workflow that calls it (verify calls read_block).
OpError(p) ==
  CASE p = "enter_session" -> "Cannot enter programming session"
    [] p = "seed"          -> "Seed request failed"
    [] p = "key"           -> "Security key rejected"
    [] p = "erase"         -> "Erase routine rejected"
    [] p = "download"      -> "RequestDownload rejected"
    [] p = "transfer"      -> "TransferData failed"
    [] p = "exit"          -> "TransferExit failed"
    [] p = "verify"        -> "ReadMemoryByAddress failed"
    [] OTHER               -> "-"

\* The main task takes the response to its last request in this step.
MainResponded ==
  /\ mainLog # << >>
  /\ Len(mainLog') = Len(mainLog)
  /\ mainLog[Len(mainLog)].rc = Pending
  /\ mainLog'[Len(mainLog)].rc # Pending

\* C18: when enter_session, security_unlock (either step), read_block,
\* erase_all, request_download, transfer_data or transfer_exit gets no
\* response, a negative one, or one whose first byte is not SID + 0x40, the
\* operation raises the error that names it and the workflow goes no further;
\* an operation that raised nothing had SID + 0x40 as first response byte.
C18_DeviationFails ==
  [][ MainResponded =>
        LET sid  == mainLog[Len(mainLog)].req[1]
            resp == lastResp'
        IN  /\ (resp = << >> \/ resp[1] # sid + 64) =>
                  /\ exc' = RuntimeError(OpError(pc))
                  /\ pc' \in FailPcs
            /\ (exc' = NoExc /\ pc' \notin FailPcs) => (resp # << >> /\ resp[1] = sid + 64)
    ]_vars

\* erase_all was answered with a first byte that is neither 0x7F nor 0x71,
\* and raised its error.
C18_Witness ==
  /\ pc = "failed"
  /\ exc = RuntimeError("Erase routine rejected")
  /\ lastResp # << >>
  /\ lastResp[1] \notin {127, pos(SID_ROUTINE_CONTROL)}

----------------------------------------------------------------------------
(* The identification requests                                             *)

\* The identifiers among the first n requests of log that were answered
\* positively, in the order of the requests.
RECURSIVE AnsweredIds(_, _)
AnsweredIds(log, n) ==
  IF n = 0 THEN << >>
  ELSE IF log[n].rc = 90
    THEN Append(AnsweredIds(log, n - 1), log[n].req[2])
    ELSE AnsweredIds(log, n - 1)

\* C19: read_ecu_id asks for 0x90, 0x92, 0x94 and 0x97 in that order, whatever
\* the answers; an identifier answered negatively or not at all is left out
\* and the next is still asked; every identifier answered positively is in
\* the result with the bytes of its response from index 2 on.
C19_AllIdentifiers ==
  [][ /\ pc' = "id_done" =>
           /\ Len(mainLog') = 4
           /\ \A i \in 1..4 : mainLog'[i].req = <<26, <<144, 146, 148, 151>>[i]>>
           /\ exc' = NoExc
           /\ [i \in 1..Len(idResult') |-> idResult'[i].ident] = AnsweredIds(mainLog', 4)
      /\ (pc = "read_id" /\ MainResponded) =>
           /\ pc' \in {"read_id", "id_done"}
           /\ IF lastResp' # << >> /\ lastResp'[1] = 90
                THEN idResult' = Append(idResult, [ident   |-> mainLog[Len(mainLog)].req[2],
                                                   payload |-> SubSeq(lastResp', 3, Len(lastResp'))])
                ELSE idResult' = idResult
    ]_vars

\* read_ecu_id returned after 0x90 was answered negatively, 0x92 not at all,
\* 0x94 with two bytes after the identifier and 0x97 with the bare 0x5A.
C19_Witness ==
  /\ pc = "id_done"
  /\ mainLog[1].rc = 127 /\ mainLog[2].rc = NoResponse
  /\ idResult = << [ident |-> 148, payload |-> <<65, 0>>], [ident |-> 151, payload |-> << >>] >>

----------------------------------------------------------------------------
(* The sequence counter of TransferData                                    *)

\* C20: the k-th TransferData request of transfer_data carries the counter
\* byte k mod 256: 1 first, 0x00 after 0xFF; and transfer_data raises only on
\* a response that is missing or does not start with 0x76, at the wrap as
\* elsewhere.
C20_CounterWraps ==
  /\ \A k \in 1..Len(mainLog) :
       /\ mainLog[k].req[1] = 54
       /\ mainLog[k].req[2] = k % 256
  /\ exc # NoExc => mainLog[Len(mainLog)].rc # 118

\* transfer_data returned after 258 blocks of one byte: the 255th carried
\* 0xFF, the 256th 0x00, the 257th 0x01, all answered positively.
C20_Witness ==
  /\ pc = "exit" /\ exc = NoExc
  /\ Len(mainLog) > 257
  /\ mainLog[255].req[2] = 255 /\ mainLog[256].req[2] = 0 /\ mainLog[257].req[2] = 1
  /\ mainLog[256].rc = 118 /\ mainLog[257].rc = 118
  /\ ecu.ptr = Len(flashImage)

----------------------------------------------------------------------------
(* The ISO-TP layer and the frames of its peer                             *)

\* A takes the frame at the head of the bus in this step.
ATakesFrame == chanBA # << >> /\ chanBA' = Tail(chanBA)

\* C21: a frame whose identifier is not 0x6F9 is ignored: when the ISO-TP
\* layer takes one, the receive in progress goes on waiting as before, with
\* no result and no error because of it.
C21_ForeignIgnored ==
  [][ (ATakesFrame /\ Head(chanBA).arbitration_id # 1785) =>
        /\ rPc' = rPc /\ rResult' = rResult /\ rBuf' = rBuf
        /\ aPc' = aPc /\ aErr' = aErr
    ]_vars

\* A awaits a FlowControl, after the First frame or after a block.
AwaitsFC == aPc \in {"await_fc", "await_fc_mid"}

\* The frame A's receive returns in this step is a FlowControl on 0x6F9.
TakesFlowControl ==
  /\ ATakesFrame
  /\ Head(chanBA).arbitration_id = 1785
  /\ Head(chanBA).data[1] \div 16 = 3

\* C27: in a multi-frame send, a Consecutive frame is followed by a wait for
\* a FlowControl exactly when the block size in force is not 0 and that many
\* Consecutive frames went out since the last FlowControl; the FlowControl
\* received sets the block size and STmin in force; when the wait ends with
\* no frame, or with one that is not a FlowControl, the send fails, and a
\* failed send emits nothing more.
C27_FlowControl ==
  [][ /\ (aPc = "cf_loop" /\ aPc' # "cf_loop") =>
           /\ (aPc' = "await_fc_mid") = (aLoc.bs # 0 /\ aLoc.bs_cnt + 1 >= aLoc.bs)
           /\ aPc' \in {"await_fc_mid", "sent"}
      /\ (aPc = "cf_loop" /\ aPc' = "cf_loop" /\ aSent' # aSent) =>
           (aLoc.bs = 0 \/ aLoc.bs_cnt + 1 < aLoc.bs)
      /\ (AwaitsFC /\ aPc' # aPc) =>
           IF TakesFlowControl
             THEN /\ aPc' \in {"cf_loop", "sent"}
                  /\ aLoc'.bs = Head(chanBA).data[2]
                  /\ aLoc'.st_min = Head(chanBA).data[3]
                  /\ aLoc'.bs_cnt = 0
                  /\ aSent' = aSent
             ELSE /\ aPc' = "error"
                  /\ aErr' = IF aPc = "await_fc" THEN "No FlowControl" ELSE "Missing FC mid-transfer"
      /\ aPc = "error" => (aPc' = "error" /\ aSent' = aSent)
    ]_vars

\* A payload of MaxLen bytes: the first FlowControl gave a block size of 1,
\* the one awaited after the first Consecutive frame gave 2 and an STmin of 5,
\* and the second Consecutive frame is about to go out.
C27_Witness ==
  /\ Len(tpPayload) = MaxLen
  /\ aPc = "cf_loop"
  /\ aLoc = [ptr |-> 13, sn |-> 2, bs_cnt |-> 0, st_min |-> 5, bs |-> 2]
  /\ Len(aSent) = 2

\* C28: when the first frame of a response arrives on 0x6F9 with a PCI type
\* other than Single or First, request() fails with an error; it does not
\* return an absent or empty result.
C28_StrayPciFails ==
  [][ ( /\ aPc = "sent" /\ rPc = "idle"
        /\ ATakesFrame
        /\ Head(chanBA).arbitration_id = 1785
        /\ Head(chanBA).data[1] \div 16 \notin {0, 1} ) =>
        (rPc' = "error" /\ rResult'.kind = "error")
    ]_vars

----------------------------------------------------------------------------
(* The heartbeat                                                           *)

\* The heartbeat thread puts a TesterPresent on the bus in this step.
HbSends == hbBeats' # hbBeats

C24_CooperativeCancel ==
  /\ (tester.stop ~> hbPc = "done")
  /\ [][ /\ (tester.stop /\ hbPc = "loop") => hbPc' \in {"loop", "done"}
         /\ hbPc = "done" => (hbPc' = "done" /\ ~HbSends)
       ]_vars

\* The flag was set while the thread was inside an exchange, and the thread
\* has ended.
C24_Witness ==
  /\ tester.stop /\ hbPc = "done"
  /\ hbBeats > 0
  /\ pc \in {"finally_join", "verify", "failed"}

\* C22: a TesterPresent exchange that fails stays with the heartbeat thread:
\* the thread goes on to its wait and its next loop test whatever came back,
\* the step in which it takes its response changes nothing of the main task,
\* and the main task never raises on the negative response to a TesterPresent
\* (7F 3E ..).
C22_HeartbeatFailureContained ==
  /\ [](exc # NoExc => ~(Len(lastResp) >= 2 /\ lastResp[1] = 127 /\ lastResp[2] = 62))
  /\ [][ /\ (hbPc = "rx" /\ hbPc' # "rx") =>
              (hbPc' = "loop" /\ pc' = pc /\ exc' = exc /\ flashRet' = flashRet)
         /\ (hbPc = "loop" /\ hbPc' # "loop" /\ ~tester.stop) => hbPc' = "tx"
       ]_vars

----------------------------------------------------------------------------
(* The block size of the transfer                                          *)

\* The length a positive RequestDownload response reports: the big-endian
\* value of the resp[1] bytes after byte 1, for the lengths of length the ECU
\* of the model uses.
ReportedMax(resp) ==
  CASE resp[2] = 0 -> TRANSFER_SIZE_DEFAULT
    [] resp[2] = 1 -> resp[3]
    [] resp[2] = 2 -> (256 * resp[3]) + resp[4]

\* C25: request_download gives the big-endian value of the max_len_len bytes
\* after byte 1 of the positive response, the default block size when
\* max_len_len is 0; the block size of the transfer is the smaller of
\* chunk_size and that value, and no TransferData carries more data bytes
\* than chunk_size or than the block size.
C25_BlockSize ==
  [][ /\ (pc = "download" /\ MainResponded /\ pc' = "start_tester") =>
           /\ lastResp'[1] = 116
           /\ loc'.block = Min(chunkArg, ReportedMax(lastResp'))
           /\ loc'.block <= chunkArg /\ loc'.block <= ReportedMax(lastResp')
      /\ \A i \in 1..Len(mainLog') :
           mainLog'[i].req[1] = 54 =>
             /\ Len(mainLog'[i].req) - 2 <= loc'.block
             /\ Len(mainLog'[i].req) - 2 <= chunkArg
      /\ pc \in {"transfer", "exit"} => loc'.block = loc.block
    ]_vars

\* The ECU reported a block of 5 bytes to a flash called with the default
\* chunk size, and a TransferData with 5 data bytes was answered positively.
C25_Witness ==
  /\ chunkArg = TRANSFER_SIZE_DEFAULT /\ loc.block = 5
  /\ Len(mainLog) > StepsBeforeTransfer
  /\ mainLog[StepsBeforeTransfer + 1].req[1] = 54
  /\ Len(mainLog[StepsBeforeTransfer + 1].req) = 7
  /\ mainLog[StepsBeforeTransfer + 1].rc = 118

\* The data bytes of the first n TransferData requests of the log, in order.
RECURSIVE TransferredData(_)
TransferredData(n) ==
  IF n = 0 THEN << >>
  ELSE LET req == mainLog[StepsBeforeTransfer + n].req
       IN  TransferredData(n - 1) \o SubSeq(req, 3, Len(req))

\* C26: with a block size c >= 1, the k-th TransferData carries
\* data[(k-1)c : kc] and goes out only after the one before it was answered
\* positively; when the transfer is over there were ceil(|data| / c) blocks
\* and their data parts, put together, are data.
C26_ConsecutiveSlices ==
  loc.block >= 1 =>
    /\ \A i \in 1..Len(mainLog) :
         mainLog[i].req[1] = 54 =>
           LET k == i - StepsBeforeTransfer
           IN  /\ k >= 1
               /\ SubSeq(mainLog[i].req, 3, Len(mainLog[i].req))
                    = SubSeq(flashImage, ((k - 1) * loc.block) + 1, Min(k * loc.block, Len(flashImage)))
               /\ k > 1 => (mainLog[i - 1].req[1] = 54 /\ mainLog[i - 1].rc = 118)
    /\ (pc = "exit" \/ \E i \in 1..Len(mainLog) : mainLog[i].req[1] = 55) =>
         /\ TransfersSent = (Len(flashImage) + loc.block - 1) \div loc.block
         /\ TransferredData(TransfersSent) = flashImage

\* A transfer in blocks of 5 bytes is over: 12 blocks, the last of one byte.
C26_Witness ==
  /\ pc = "exit"
  /\ loc.block = 5
  /\ TransfersSent = 12
  /\ Len(mainLog[Len(mainLog)].req) = 3
  /\ exc = NoExc

----------------------------------------------------------------------------
(* The security access                                                     *)

\* C29: security_unlock sends 27 01, then, only when that was answered
\* positively, 27 02 with the high and the low byte of
\* calc_key_msd80(seed), the seed being bytes 2..3 of the seed response,
\* big-endian (67 01 12 34 gives 27 02 C7 23); it returns only when the
\* response to the key is positive.
C29_UnlockExchange ==
  /\ Len(mainLog) >= 2 => mainLog[2].req = <<39, 1>>
  /\ Len(mainLog) >= 3 =>
       /\ mainLog[2].rc = 103
       /\ Len(mainLog[3].req) = 4
       /\ mainLog[3].req[1] = 39 /\ mainLog[3].req[2] = 2
  /\ (Len(mainLog) = 3 /\ mainLog[3].rc = Pending /\ Len(lastResp) >= 4) =>
       (256 * mainLog[3].req[3]) + mainLog[3].req[4]
         = calc_key_msd80((256 * lastResp[3]) + lastResp[4])
  /\ (Len(mainLog) = 3 /\ mainLog[3].rc = Pending /\ lastResp = <<103, 1, 18, 52>>) =>
       mainLog[3].req = <<39, 2, 199, 35>>
  /\ (Len(mainLog) = 2 /\ mainLog[2].rc \notin {Pending, 103}) => pc = "failed"
  /\ pc \in {"flash", "erase", "download", "start_tester"} =>
       (Len(mainLog) >= 3 /\ mainLog[3].rc = 103)

\* The exchange 27 01 / 67 01 12 34, 27 02 C7 23 / 67 02 has taken place.
C29_Witness ==
  /\ pc = "flash"
  /\ mainLog[1].req = <<16, 133>> /\ mainLog[1].rc = 80
  /\ loc.seed = 4660
  /\ mainLog[3].req = <<39, 2, 199, 35>> /\ mainLog[3].rc = 103
  /\ lastResp = <<103, 2>>

\* C30: a positive response that is cut short is turned down: the key is
\* sent only after a seed response of at least 4 bytes, and a block size is
\* taken only from a RequestDownload response that has byte 1 and all the
\* length bytes byte 1 announces.
C30_TruncatedRejected ==
  /\ (Len(mainLog) = 3 /\ mainLog[3].rc = Pending) => Len(lastResp) >= 4
  /\ pc = "start_tester" =>
       (Len(lastResp) >= 2 /\ Len(lastResp) >= 2 + lastResp[2])

----------------------------------------------------------------------------
(* The frames of the ISO-TP layer                                          *)

\* The number of bytes that carry meaning in the i-th frame request() sent:
\* the first frame is the Single frame (PCI and payload) or the First frame
\* (full), the next ones are the Consecutive frames of _send (PCI and up to 7
\* payload bytes), and what follows is the FlowControl of _recv (3 bytes).
MeaningfulBytes(i) ==
  LET n == Len(tpPayload)
  IN  IF i = 1 THEN (IF n <= 7 THEN 1 + n ELSE 8)
      ELSE IF i <= ExpectedFrames(n) THEN 1 + Min(7, n - 6 - 7 * (i - 2))
      ELSE 3

\* C31: every frame the ISO-TP layer sends (Single, First, Consecutive, and
\* the FlowControl it emits while receiving) has arbitration identifier 0x6F1
\* and a data field of exactly 8 bytes, and all bytes after the meaningful
\* ones are 0x00.
C31_FramesPadded ==
  \A i \in 1..Len(aSent) :
    /\ aSent[i].arbitration_id = 1777
    /\ Len(aSent[i].data) = 8
    /\ \A j \in (MeaningfulBytes(i) + 1)..8 : aSent[i].data[j] = 0

\* A First frame, Consecutive frames of which the last is partly filled, and
\* the FlowControl for a multi-frame response have been sent.
C31_Witness ==
  /\ Len(tpPayload) > 7
  /\ rPc = "cf_loop"
  /\ Len(aSent) = ExpectedFrames(Len(tpPayload)) + 1
  /\ MeaningfulBytes(ExpectedFrames(Len(tpPayload))) < 8
  /\ aSent[Len(aSent)].data[1] = 48

\* C32: in a multi-frame send the First frame's PCI encodes the 12-bit total
\* length and the frame carries payload bytes 0..5; the k-th Consecutive frame
\* (k = 1, 2, ...) has PCI byte 0x20 | (k mod 16), so sequence numbers start at
\* 1, increase by one per frame and wrap from 15 to 0, and it carries payload
\* bytes 6+7(k-1) .. 6+7k-1 as far as the payload reaches.
C32_SequenceAndSlices ==
  LET n == Len(tpPayload)
  IN  n > 7 =>
        \A i \in 1..Len(aSent) :
          LET data == aSent[i].data
              k    == i - 1
              base == 6 + 7 * (k - 1)
          IN  IF i = 1
                THEN /\ data[1] = 16 + (n \div 256)
                     /\ data[2] = n % 256
                     /\ \A j \in 1..6 : data[2 + j] = tpPayload[j]
                ELSE /\ data[1] = 32 + (k % 16)
                     /\ \A j \in 1..7 :
                          base + j <= n => data[1 + j] = tpPayload[base + j]

\* A payload whose length needs more than 8 bits has been sent as far as its
\* 17th Consecutive frame: the sequence number went from 15 over 0 to 1.
C32_Witness ==
  /\ Len(tpPayload) > 255
  /\ Len(aSent) >= 18
  /\ aSent[16].data[1] = 47
  /\ aSent[17].data[1] = 32
  /\ aSent[18].data[1] = 33

----------------------------------------------------------------------------
(* The download's claims                                                   *)

\* A receive of the main task ended without a response.
MainTimedOut == \E i \in 1..Len(mainLog) : mainLog[i].rc = NoResponse

\* C33: against an ECU that always answers positively, transfer_data sends
\* finitely many TransferData requests and then proceeds to transfer_exit,
\* for every block size flash can compute from chunk_size and the reported
\* max_chunk, a reported max_chunk of 0 included: unless a receive timed out,
\* the loop, once entered, is left for transfer_exit, and every turn of it
\* moves the offset forward.
C33_TransferTerminates ==
  /\ (pc = "transfer") ~> (pc = "exit" \/ MainTimedOut)
  /\ [][ (pc = "transfer" /\ phase = "rx" /\ pc' = "transfer" /\ phase' = "tx")
           => loc'.offset > loc.offset ]_vars

----------------------------------------------------------------------------
(* The readback's claims                                                   *)

\* C34: verify(image) succeeds only if every byte of the image in
\* [0, len(image)) was read back and found equal: verify goes past a stride,
\* and the workflow completes, only when the response to the stride's read
\* carried all the bytes asked for, each equal to the image's; a response
\* with fewer data bytes, or with none, makes verify fail.
C34_ShortReadFails ==
  (pc = "done" \/ (pc = "verify" /\ phase = "tx" /\ loc.addr > 0)) =>
    LET a == loc.addr - VERIFY_CHUNK
        n == Min(VERIFY_CHUNK, Len(flashImage) - a)
    IN  /\ Len(lastResp) = 1 + n
        /\ \A i \in 1..n : lastResp[1 + i] = flashImage[a + i]

----------------------------------------------------------------------------
(* The patcher's frame                                                     *)

\* C35: a successful patch_vin(image, v) leaves every byte of the image
\* outside the final checksum word [CAL_END-2, CAL_END) equal to the input and
\* keeps the length, and patch_vin applied with the same v to its own result
\* returns that result unchanged.
C35_FrameAndIdempotent ==
  /\ pout.status = "ok" =>
       /\ Len(pout.image) = Len(pimage)
       /\ \A a \in 0..(Len(pimage) - 1) :
            a \notin ChecksumWord => pout.image[a + 1] = pimage[a + 1]
  /\ pagain.status # "none" => pagain = pout

----------------------------------------------------------------------------
(* The end of a multi-frame send                                           *)

\* C36: in a multi-frame send with BS > 0 the sender waits for a FlowControl
\* only when further Consecutive frames remain: with the final Consecutive
\* frame of the payload out (also when their number is a multiple of BS)
\* _send returns, and the next frame taken from the bus goes to the receive of
\* the response of the same request.
C36_NoWaitAfterLast ==
  [][ /\ (aPc = "cf_loop" /\ aSent' # aSent /\ aLoc'.ptr >= Len(tpPayload)) =>
           aPc' = "sent"
      /\ ( /\ Len(tpPayload) > 7
           /\ Len(aSent) >= ExpectedFrames(Len(tpPayload))
           /\ rPc = "idle"
           /\ ATakesFrame ) =>
           rPc' # "idle"
    ]_vars

====
